---- MODULE Spec2Model ----
(***************************************************************************)
(* Model of the drawio-mcp sidecar (src/src/index.ts, lines 613-1050):     *)
(* several MCP processes share one local port.  The process that binds the *)
(* port is the server ("Leader"); the others connect to it as WebSocket    *)
(* clients ("Relay") and retry every RECONNECT_DELAY_MS.                    *)
(*                                                                         *)
(* Each process is single threaded: one action below is one callback or    *)
(* one exported function run to completion.  A promise continuation that   *)
(* follows an await is a separate action.                                  *)
(***************************************************************************)
EXTENDS Integers, Sequences, FiniteSets, TLC

\* ------------------------------------------------------------------ bounds
NumProcs == 3
MaxConns == 2
MaxReqs  == 2
MaxSends == 2
MaxQueue == 2
MaxKills == 1
MaxStops == 1

Procs   == 1..NumProcs
Conns   == 1..MaxConns
ReqIds  == 1..MaxReqs
NoProc  == 0
NoConn  == 0
NoReq   == 0
Denied  == 0 - 1       \* portOwner value: the OS refuses any bind of the port (EACCES)

\* ------------------------------------------------------------------ paths
\* A file path is a list of segments, absolute or relative to the cwd.
\* "present" is FALSE for an absent (undefined or empty) filePath.
Cwd == <<"tmp">>

Lower(s) == IF s = "A" THEN "a" ELSE IF s = "TMP" THEN "tmp" ELSE s

FP(abs, segs) == [present |-> TRUE, abs |-> abs, segs |-> segs]
NoFile == [present |-> FALSE, abs |-> FALSE, segs |-> <<>>]

RECURSIVE ResolveSegs(_, _)
ResolveSegs(acc, segs) ==
  IF segs = <<>> THEN acc
  ELSE LET s == Head(segs)
           acc2 == IF s = ".." THEN (IF acc = <<>> THEN acc ELSE SubSeq(acc, 1, Len(acc) - 1))
                   ELSE Append(acc, s)
       IN ResolveSegs(acc2, Tail(segs))

\* path.resolve(filePath): relative paths are taken from the cwd, ".." is folded
PathResolve(fp) == ResolveSegs(IF fp.abs THEN <<>> ELSE Cwd, fp.segs)

\* String.prototype.toLowerCase on the resolved path
ToLowerCase(segs) == [i \in 1..Len(segs) |-> Lower(segs[i])]

normalizePath(fp) == ToLowerCase(PathResolve(fp))

\* the raw paths callers and editors use in this model
RawPaths == { FP(TRUE, <<"tmp", "a">>), FP(FALSE, <<"..", "TMP", "A">>), FP(TRUE, <<"tmp", "b">>) }
FilePaths == RawPaths \cup {NoFile}

\* ------------------------------------------------------------------ state
VARIABLES
  alive,                \* alive[p]: the OS process exists
  portOwner,            \* the process whose listening socket holds the port, or NoProc
  listening,            \* listening[p]: "none", or who awaits the resolved tryBindServer promise ("start"/"tick")
  wss,                  \* wss[p]: the module variable wss is set (server mode)
  isRelayMode,          \* isRelayMode[p]
  relayWs,              \* relayWs[p]: the connection the variable refers to, or NoConn
  relayReconnectTimer,  \* relayReconnectTimer[p]: the number of retry timers pending
  startResult,          \* outcome of the latest startSidecar() promise of p
  conn,                 \* conn[c]: one WebSocket connection, both ends
  up,                   \* up[c]: frames in flight from the client end to the server end
  down,                 \* down[c]: frames the server end has sent to the client end
  clients,              \* clients[p]: Set of bridge/relay sockets (Controllers)
  drawioClients,        \* drawioClients[p]: Set of draw.io plugin sockets (Endpoints)
  drawioClientFiles,    \* drawioClientFiles[p]: Map socket -> normalized file
  pendingRequests,      \* pendingRequests[p]: the requestIds in the Map
  reqs,                 \* reqs[r]: the promise returned by sendToDrawioAndWait for requestId r
  nSent,                \* number of sendToDrawio calls so far (bounded)
  nStops,               \* number of stopSidecar calls so far (bounded)
  last,                 \* what the latest action did (observation only)
  changeHistory,        \* drawio.ts: the array changeHistory
  undoneRecords,        \* drawio.ts: the array undoneRecords
  fileXml,              \* fileXml[f]: the content of the diagram file f on disk
  calls,                \* calls[k]: a tool call of drawio.ts waiting at an await, or NoCall
  nextChangeId,         \* the index of the next id generateId() returns to recordChange
  hlast,                \* what the latest step of drawio.ts did and returned (observation only)
  hsnap,                \* history, redo stack and files when the latest undo was called (observation only)
  bsock,                \* bridge-client.ts: bsock[s], a WebSocket a BridgeClient created
  bridgeWs,             \* BridgeClient.ws: the socket the field refers to, or NoSock
  reconnectTimer,       \* BridgeClient.reconnectTimer is set
  isConnected,          \* BridgeClient._isConnected
  userDisconnected      \* disconnect() was called and connect() has not been called since (observation only)

procVars == <<alive, portOwner, listening, wss, isRelayMode, relayWs, relayReconnectTimer, startResult>>
regVars  == <<clients, drawioClients, drawioClientFiles>>
reqVars  == <<pendingRequests, reqs>>
sidecarVars == <<alive, portOwner, listening, wss, isRelayMode, relayWs, relayReconnectTimer,
                 startResult, conn, up, down, clients, drawioClients, drawioClientFiles,
                 pendingRequests, reqs, nSent, nStops, last>>
histVars == <<changeHistory, undoneRecords, fileXml, calls, nextChangeId, hlast, hsnap>>
bridgeVars == <<bsock, bridgeWs, reconnectTimer, isConnected, userDisconnected>>
vars == <<sidecarVars, histVars, bridgeVars>>

FreeConn == [cli |-> NoProc, ep |-> FALSE, srv |-> NoProc, cst |-> "free", sst |-> "none", origin |-> "ext"]
EmptyMap == [x \in {} |-> <<>>]

\* A message: the JSON object on the wire.  type "malformed" stands for a frame
\* JSON.parse rejects; "result" for graph-edit-result / graph-read-result.
Msg(t, fp, pid, rid, ok) == [type |-> t, filePath |-> fp, pid |-> pid, requestId |-> rid, success |-> ok]
NoMsg == Msg("none", NoFile, NoProc, NoReq, FALSE)

NoLast    == [op |-> "none", p |-> NoProc, c |-> NoConn, msg |-> NoMsg, to |-> {}, cb |-> FALSE]
NoPromise == [by |-> NoProc, state |-> "none", timer |-> FALSE, settles |-> 0, value |-> NoMsg]

\* the change history of src/src/drawio.ts: files, contents and records
MaxChanges == 3
MaxXml     == 1
MaxCalls   == 2
MAX_HISTORY == 50

DiagramFiles == {"a.drawio", "b.drawio"}
Xmls     == 0..MaxXml    \* file contents
CallIds  == 1..MaxCalls
EmptyDiagram == 0        \* the content createEmptyDiagram() returns
NoXml    == 0 - 1        \* ChangeRecord.afterXml absent

\* ChangeRecord (the timestamp is left out)
NoRecord == [id |-> 0, filePath |-> "", beforeXml |-> NoXml, afterXml |-> NoXml]
NoCall   == [kind |-> "none", stage |-> "none", filePath |-> "", beforeXml |-> NoXml, record |-> NoRecord]
NoSnap   == [history |-> <<>>, undone |-> <<>>, files |-> <<>>]
HNote(op, ok, rec, k, chain) == [op |-> op, ok |-> ok, rec |-> rec, k |-> k, chain |-> chain]

\* the sockets of a BridgeClient (vscode-drawio-mcp-bridge/src/bridge-client.ts)
MaxBridgeSocks == 3
BridgeSocks == 1..MaxBridgeSocks
NoSock == 0
\* st: "none", "connecting", "open", "aborting" (closed before it opened: 'error'
\* and 'close' are due), "closing" ('close' is due); timeout: the 5 s timer of
\* the connect() call that created the socket is pending
NoSocket == [st |-> "none", timeout |-> FALSE]

InitCommon ==
  /\ listening = [p \in Procs |-> "none"]
  /\ wss = [p \in Procs |-> FALSE]
  /\ isRelayMode = [p \in Procs |-> FALSE]
  /\ relayWs = [p \in Procs |-> NoConn]
  /\ relayReconnectTimer = [p \in Procs |-> 0]
  /\ startResult = [p \in Procs |-> "none"]
  /\ conn = [c \in Conns |-> FreeConn]
  /\ up = [c \in Conns |-> <<>>]
  /\ down = [c \in Conns |-> <<>>]
  /\ clients = [p \in Procs |-> {}]
  /\ drawioClients = [p \in Procs |-> {}]
  /\ drawioClientFiles = [p \in Procs |-> EmptyMap]
  /\ pendingRequests = [p \in Procs |-> {}]
  /\ reqs = [r \in ReqIds |-> NoPromise]
  /\ nSent = 0
  /\ nStops = 0
  /\ last = NoLast
  /\ changeHistory = <<>>
  /\ undoneRecords = <<>>
  /\ fileXml = [f \in DiagramFiles |-> EmptyDiagram]
  /\ calls = [k \in CallIds |-> NoCall]
  /\ nextChangeId = 1
  /\ hlast = HNote("none", FALSE, NoRecord, 0, 0)
  /\ hsnap = NoSnap
  /\ bsock = [s \in BridgeSocks |-> NoSocket]
  /\ bridgeWs = NoSock
  /\ reconnectTimer = FALSE
  /\ isConnected = FALSE
  /\ userDisconnected = FALSE

\* ------------------------------------------------------------------ helpers
\* the Map operations of drawioClientFiles
MapSetIfAbsent(f, k, v) == [x \in (DOMAIN f) \cup {k} |-> IF x \in DOMAIN f THEN f[x] ELSE v]
MapSet(f, k, v) == [x \in (DOMAIN f) \cup {k} |-> IF x = k THEN v ELSE f[x]]
MapDeleteNothing(f, k) == f
MapDelete(f, k) == [x \in (DOMAIN f) \ {k} |-> f[x]]

\* ws.readyState === WebSocket.OPEN, for the server end and the client end of c
ServerEndOpen(c) == conn[c].sst = "open"
ClientEndNotClosed(c) == conn[c].cst \in {"open", "closing"}
ClientEndOpen(c) == conn[c].cst = "open"

\* a connection both ends of which are gone is forgotten (its id is reused)
Tidy(cf) == [c \in Conns |->
               IF cf[c].cst = "closed" /\ cf[c].sst \in {"none", "closed"} THEN FreeConn ELSE cf[c]]
TidyQ(cf, q) == [c \in Conns |-> IF Tidy(cf)[c].cst = "free" THEN <<>> ELSE q[c]]

FreeIds == {c \in Conns : conn[c].cst = "free"}
NewId == CHOOSE c \in FreeIds : \A d \in FreeIds : c <= d

\* A resolved tryBindServer promise whose continuation has not run yet: the
\* continuation is a microtask, so no I/O or timer callback of p runs before it
\* (synchronous calls of the exported functions may).
Busy(p) == listening[p] # "none"

\* the spec's roles, read off the module variables
IsLeader(p) == alive[p] /\ wss[p]
IsRelay(p)  == alive[p] /\ isRelayMode[p] /\ relayWs[p] # NoConn /\ ClientEndOpen(relayWs[p])
IsRetryPending(p) == alive[p] /\ ~wss[p] /\ relayReconnectTimer[p] > 0
Leaders == {p \in Procs : IsLeader(p)}

\* ------------------------------------------------------------------ Port Arbiter
\* the OS decides a bind: at most one listening socket per port
BindSucceedsAlways(p) == portOwner # Denied
BindSucceeds(p) == portOwner = NoProc

tryBindServerNever(p) == "EADDRINUSE"
tryBindServerAllInUse(p) == IF BindSucceeds(p) THEN "ok" ELSE "EADDRINUSE"
\* tryBindServer(port): the error code, or "ok"
tryBindServer(p) ==
  IF BindSucceeds(p) THEN "ok"
  ELSE IF portOwner = Denied THEN "EACCES" ELSE "EADDRINUSE"

\* scheduleReconnect(port): arms the retry timer unless one is pending
scheduleReconnectNever(timers, p) == timers
scheduleReconnectUnguarded(timers, p) == [timers EXCEPT ![p] = @ + 1]
scheduleReconnect(timers, p) == IF timers[p] > 0 THEN timers ELSE [timers EXCEPT ![p] = 1]

NewRelayConnLost(p, from) ==
  [cli |-> p, ep |-> FALSE, srv |-> NoProc, cst |-> "failed", sst |-> "none", origin |-> from]
\* new WebSocket(url) in connectRelay: a connection attempt of p
NewRelayConn(p, from) ==
  [cli |-> p, ep |-> FALSE, srv |-> NoProc, cst |-> "connecting", sst |-> "none", origin |-> from]

\* the peer ends of the connections p serves, when p closes them or dies
DropServed(cf, p) ==
  [c \in Conns |->
     IF cf[c].srv = p /\ cf[c].sst \in {"open", "closing"}
     THEN [cf[c] EXCEPT !.sst = "closed",
                        !.cst = IF cf[c].cli = NoProc THEN "closed"
                                ELSE IF @ = "accepted" THEN "failed"
                                ELSE IF @ = "open" THEN "closing" ELSE @]
     ELSE cf[c]]

\* stopSidecar: client.close() on every socket p serves.  The close handshake
\* of a kept socket is modelled: its server end is CLOSING until the 'close'
\* event, and frames the peer had sent still reach the 'message' handler
CloseServed(cf, p) ==
  [c \in Conns |->
     IF cf[c].srv = p /\ cf[c].sst = "open" /\ cf[c].origin = "kept"
     THEN [cf[c] EXCEPT !.sst = "closing"]
     ELSE DropServed(cf, p)[c]]

\* ws.close() on the client end c
CloseClientEnd(cf, c) ==
  [cf EXCEPT ![c].cst = "closing", ![c].sst = IF @ = "open" THEN "closing" ELSE @]

AlreadyStartedServerOnly(p) == wss[p]
\* startSidecar: if (wss || isRelayMode) return Promise.resolve()
AlreadyStarted(p) == wss[p] \/ isRelayMode[p]

\* startSidecar(port)
Start(p) ==
  /\ alive[p]
  /\ IF AlreadyStarted(p)
     THEN /\ startResult' = [startResult EXCEPT ![p] = "resolved"]
          /\ UNCHANGED <<portOwner, listening, conn>>
     ELSE LET res == tryBindServer(p) IN
          IF res = "ok"
          THEN /\ portOwner' = p
               /\ listening' = [listening EXCEPT ![p] = "start"]
               /\ startResult' = [startResult EXCEPT ![p] = "pending"]
               /\ UNCHANGED conn
          ELSE IF res = "EADDRINUSE"
          THEN /\ FreeIds # {}
               /\ conn' = [conn EXCEPT ![NewId] = NewRelayConn(p, "start")]
               /\ startResult' = [startResult EXCEPT ![p] = "pending"]
               /\ UNCHANGED <<portOwner, listening>>
          ELSE /\ startResult' = [startResult EXCEPT ![p] = "rejected"]
               /\ UNCHANGED <<portOwner, listening, conn>>
  /\ last' = NoLast
  /\ UNCHANGED <<alive, wss, isRelayMode, relayWs, relayReconnectTimer, up, down,
                 clients, drawioClients, drawioClientFiles, pendingRequests, reqs, nSent, nStops>>
  /\ UNCHANGED <<histVars, bridgeVars>>

\* becomeServer(server, port), the continuation of a resolved tryBindServer
BecomeServer(p) ==
  /\ alive[p] /\ listening[p] # "none"
  /\ conn' = IF relayWs[p] # NoConn THEN CloseClientEnd(conn, relayWs[p]) ELSE conn
  /\ relayWs' = [relayWs EXCEPT ![p] = NoConn]
  /\ relayReconnectTimer' = [relayReconnectTimer EXCEPT ![p] = 0]
  /\ isRelayMode' = [isRelayMode EXCEPT ![p] = FALSE]
  /\ wss' = [wss EXCEPT ![p] = TRUE]
  /\ startResult' = IF listening[p] = "start" THEN [startResult EXCEPT ![p] = "resolved"]
                    ELSE startResult
  /\ listening' = [listening EXCEPT ![p] = "none"]
  /\ last' = NoLast
  /\ UNCHANGED <<alive, portOwner, up, down, clients, drawioClients, drawioClientFiles,
                 pendingRequests, reqs, nSent, nStops>>
  /\ UNCHANGED <<histVars, bridgeVars>>

\* the retry timer of scheduleReconnect fires: bind first, relay second
TimerFire(p) ==
  /\ alive[p] /\ ~Busy(p) /\ relayReconnectTimer[p] > 0
  /\ relayReconnectTimer' = [relayReconnectTimer EXCEPT ![p] = 0]
  /\ IF tryBindServer(p) = "ok"
     THEN /\ portOwner' = p
          /\ listening' = [listening EXCEPT ![p] = "tick"]
          /\ UNCHANGED conn
     ELSE /\ FreeIds # {}
          /\ conn' = [conn EXCEPT ![NewId] = NewRelayConn(p, "tick")]
          /\ UNCHANGED <<portOwner, listening>>
  /\ last' = NoLast
  /\ UNCHANGED <<alive, wss, isRelayMode, relayWs, startResult, up, down,
                 clients, drawioClients, drawioClientFiles, pendingRequests, reqs, nSent, nStops>>
  /\ UNCHANGED <<histVars, bridgeVars>>

\* the server's 'connection' event for a relay's connection attempt (path "/")
Accept(c) ==
  LET p == portOwner IN
  /\ conn[c].cst = "connecting" /\ conn[c].srv = NoProc
  /\ p \in Procs /\ alive[p] /\ wss[p] /\ ~Busy(p)
  /\ conn' = [conn EXCEPT ![c].srv = p, ![c].sst = "open", ![c].cst = "accepted"]
  /\ clients' = [clients EXCEPT ![p] = @ \cup {c}]
  /\ last' = NoLast
  /\ UNCHANGED <<procVars, up, down, drawioClients, drawioClientFiles, pendingRequests, reqs, nSent, nStops>>
  /\ UNCHANGED <<histVars, bridgeVars>>

\* connectRelay: ws.on('open')
RelayOpen(c) ==
  LET q == conn[c].cli IN
  /\ conn[c].cst = "accepted" /\ alive[q] /\ ~Busy(q)
  /\ conn' = [conn EXCEPT ![c].cst = "open"]
  /\ relayWs' = [relayWs EXCEPT ![q] = c]
  /\ isRelayMode' = [isRelayMode EXCEPT ![q] = TRUE]
  /\ startResult' = IF conn[c].origin = "start" THEN [startResult EXCEPT ![q] = "resolved"]
                    ELSE startResult
  /\ last' = NoLast
  /\ UNCHANGED <<alive, portOwner, listening, wss, relayReconnectTimer, up, down,
                 clients, drawioClients, drawioClientFiles, pendingRequests, reqs, nSent, nStops>>
  /\ UNCHANGED <<histVars, bridgeVars>>

\* connectRelay: ws.on('error') followed by ws.on('close') of a socket that never
\* opened; the rejected promise's handler (startSidecar's catch, or the tick's
\* catch) calls scheduleReconnect
ConnectFail(c) ==
  LET q == conn[c].cli IN
  /\ \/ conn[c].cst = "failed"
     \/ conn[c].cst = "connecting" /\ conn[c].srv = NoProc /\ portOwner \notin Procs
  /\ alive[q] /\ ~Busy(q)
  /\ conn' = Tidy([conn EXCEPT ![c].cst = "closed"])
  /\ up' = TidyQ([conn EXCEPT ![c].cst = "closed"], up)
  /\ down' = TidyQ([conn EXCEPT ![c].cst = "closed"], down)
  /\ relayWs' = [relayWs EXCEPT ![q] = NoConn]
  /\ relayReconnectTimer' = scheduleReconnect(scheduleReconnect(relayReconnectTimer, q), q)
  /\ startResult' = IF conn[c].origin = "start" THEN [startResult EXCEPT ![q] = "resolved"]
                    ELSE startResult
  /\ last' = NoLast
  /\ UNCHANGED <<alive, portOwner, listening, wss, isRelayMode,
                 clients, drawioClients, drawioClientFiles, pendingRequests, reqs, nSent, nStops>>
  /\ UNCHANGED <<histVars, bridgeVars>>

\* connectRelay: the 5 s timeout fires before 'open' or 'error': ws.terminate()
\* and reject; terminate() emits 'error' and 'close' on the next tick, so their
\* handlers and the rejection handler run before any other callback
ConnectTimeout(c) ==
  LET q == conn[c].cli
      cf == [conn EXCEPT ![c].cst = "closed", ![c].sst = IF @ = "open" THEN "closing" ELSE @]
  IN
  /\ conn[c].cst \in {"connecting", "accepted"} /\ alive[q] /\ ~Busy(q)
  /\ conn' = Tidy(cf)
  /\ up' = TidyQ(cf, up)
  /\ down' = TidyQ(cf, down)
  /\ relayWs' = [relayWs EXCEPT ![q] = NoConn]
  /\ relayReconnectTimer' = scheduleReconnect(scheduleReconnect(relayReconnectTimer, q), q)
  /\ startResult' = IF conn[c].origin = "start" THEN [startResult EXCEPT ![q] = "resolved"]
                    ELSE startResult
  /\ last' = NoLast
  /\ UNCHANGED <<alive, portOwner, listening, wss, isRelayMode,
                 clients, drawioClients, drawioClientFiles, pendingRequests, reqs, nSent, nStops>>
  /\ UNCHANGED <<histVars, bridgeVars>>

\* connectRelay: ws.on('close') of a socket that had opened
RelayClose(c) ==
  LET q == conn[c].cli IN
  /\ q # NoProc /\ conn[c].cst = "closing" /\ down[c] = <<>>
  /\ alive[q] /\ ~Busy(q)
  /\ conn' = Tidy([conn EXCEPT ![c].cst = "closed"])
  /\ up' = TidyQ([conn EXCEPT ![c].cst = "closed"], up)
  /\ down' = TidyQ([conn EXCEPT ![c].cst = "closed"], down)
  /\ relayWs' = [relayWs EXCEPT ![q] = NoConn]
  /\ relayReconnectTimer' = scheduleReconnect(relayReconnectTimer, q)
  /\ last' = NoLast
  /\ UNCHANGED <<alive, portOwner, listening, wss, isRelayMode, startResult,
                 clients, drawioClients, drawioClientFiles, pendingRequests, reqs, nSent, nStops>>
  /\ UNCHANGED <<histVars, bridgeVars>>

\* attachConnectionHandlers: ws.on('close') at the server
ServerClose(c) ==
  LET p == conn[c].srv IN
  /\ conn[c].sst = "closing" /\ up[c] = <<>>
  /\ alive[p] /\ ~Busy(p)
  /\ clients' = [clients EXCEPT ![p] = @ \ {c}]
  /\ drawioClients' = [drawioClients EXCEPT ![p] = @ \ {c}]
  /\ drawioClientFiles' = [drawioClientFiles EXCEPT ![p] = MapDelete(@, c)]
  /\ conn' = Tidy([conn EXCEPT ![c].sst = "closed"])
  /\ up' = TidyQ([conn EXCEPT ![c].sst = "closed"], up)
  /\ down' = TidyQ([conn EXCEPT ![c].sst = "closed"], down)
  /\ last' = NoLast
  /\ UNCHANGED <<procVars, pendingRequests, reqs, nSent, nStops>>
  /\ UNCHANGED <<histVars, bridgeVars>>

\* ------------------------------------------------------------------ Request Correlator
\* resolve(...) / reject(...) of a promise: only the first call decides its state
Settle(pr, outcome, val) ==
  [pr EXCEPT !.settles = @ + 1,
             !.state = IF @ = "pending" THEN outcome ELSE @,
             !.value = IF pr.state = "pending" THEN val ELSE @]

ResolveWithoutPayload(pr, m) == [Settle(pr, "resolved", NoMsg) EXCEPT !.timer = FALSE]
\* clearTimeout(pending.timer); pending.resolve(msg)
ResolvePending(pr, m) == [Settle(pr, "resolved", m) EXCEPT !.timer = FALSE]

FreeReqs == {r \in ReqIds : reqs[r].state = "none"}
\* generateId(): an id no earlier call returned
generateId == CHOOSE r \in FreeReqs : \A x \in FreeReqs : r <= x

TimeoutKeepsEntry(pr, p, r) == pr
\* pendingRequests.delete(msg.requestId) in the timer callback
TimeoutDelete(pr, p, r) == [pr EXCEPT ![p] = @ \ {r}]

\* the timer callback of sendToDrawioAndWait
Timeout(r) ==
  LET p == reqs[r].by IN
  /\ reqs[r].timer /\ alive[p] /\ ~Busy(p)
  /\ pendingRequests' = TimeoutDelete(pendingRequests, p, r)
  /\ reqs' = [reqs EXCEPT ![r] = [Settle(@, "timeout", NoMsg) EXCEPT !.timer = FALSE]]
  /\ last' = NoLast
  /\ UNCHANGED <<procVars, conn, up, down, clients, drawioClients, drawioClientFiles, nSent, nStops>>
  /\ UNCHANGED <<histVars, bridgeVars>>

RejectAllTimersLeft(rq, p) ==
  [r \in ReqIds |-> IF r \in pendingRequests[p] THEN Settle(rq[r], "stopped", NoMsg) ELSE rq[r]]
\* the loop of stopSidecar over pendingRequests: clearTimeout, reject('Sidecar stopped')
RejectAll(rq, p) ==
  [r \in ReqIds |-> IF r \in pendingRequests[p]
                    THEN [Settle(rq[r], "stopped", NoMsg) EXCEPT !.timer = FALSE]
                    ELSE rq[r]]

\* ------------------------------------------------------------------ Lifecycle
\* stopSidecar()
Stop(p) ==
  /\ alive[p] /\ nStops < MaxStops
  /\ nStops' = nStops + 1
  /\ LET c1 == IF wss[p] THEN CloseServed(conn, p) ELSE conn
         c2 == IF relayWs[p] # NoConn THEN CloseClientEnd(c1, relayWs[p]) ELSE c1
     IN /\ conn' = Tidy(c2)
        /\ up' = TidyQ(c2, [c \in Conns |-> IF wss[p] /\ conn[c].srv = p THEN <<>> ELSE up[c]])
        /\ down' = TidyQ(c2, down)
  /\ IF wss[p]
     THEN /\ portOwner' = NoProc
          /\ clients' = [clients EXCEPT ![p] = {}]
          /\ drawioClients' = [drawioClients EXCEPT ![p] = {}]
          /\ drawioClientFiles' = [drawioClientFiles EXCEPT ![p] = EmptyMap]
          /\ reqs' = RejectAll(reqs, p)
          /\ pendingRequests' = [pendingRequests EXCEPT ![p] = {}]
     ELSE UNCHANGED <<portOwner, clients, drawioClients, drawioClientFiles, reqs, pendingRequests>>
  /\ wss' = [wss EXCEPT ![p] = FALSE]
  /\ relayWs' = [relayWs EXCEPT ![p] = NoConn]
  /\ relayReconnectTimer' = [relayReconnectTimer EXCEPT ![p] = 0]
  /\ isRelayMode' = [isRelayMode EXCEPT ![p] = FALSE]
  /\ last' = NoLast
  /\ UNCHANGED <<alive, listening, startResult, nSent>>
  /\ UNCHANGED <<histVars, bridgeVars>>

\* the OS process dies (crash, SIGKILL): its sockets close, its memory is gone
Kill(p) ==
  /\ alive[p] /\ Cardinality({q \in Procs : ~alive[q]}) < MaxKills
  /\ alive' = [alive EXCEPT ![p] = FALSE]
  /\ portOwner' = IF portOwner = p THEN NoProc ELSE portOwner
  /\ listening' = [listening EXCEPT ![p] = "none"]
  /\ wss' = [wss EXCEPT ![p] = FALSE]
  /\ isRelayMode' = [isRelayMode EXCEPT ![p] = FALSE]
  /\ relayWs' = [relayWs EXCEPT ![p] = NoConn]
  /\ relayReconnectTimer' = [relayReconnectTimer EXCEPT ![p] = 0]
  /\ startResult' = [startResult EXCEPT ![p] = "none"]
  /\ LET c1 == DropServed(conn, p)
         c2 == [c \in Conns |->
                  IF c1[c].cli = p /\ c1[c].cst # "free"
                  THEN [c1[c] EXCEPT !.cst = "closed", !.sst = IF @ = "open" THEN "closing" ELSE @]
                  ELSE c1[c]]
     IN /\ conn' = Tidy(c2)
        /\ up' = TidyQ(c2, [c \in Conns |-> IF conn[c].srv = p THEN <<>> ELSE up[c]])
        /\ down' = TidyQ(c2, [c \in Conns |-> IF conn[c].cli = p THEN <<>> ELSE down[c]])
  /\ clients' = [clients EXCEPT ![p] = {}]
  /\ drawioClients' = [drawioClients EXCEPT ![p] = {}]
  /\ drawioClientFiles' = [drawioClientFiles EXCEPT ![p] = EmptyMap]
  /\ pendingRequests' = [pendingRequests EXCEPT ![p] = {}]
  /\ reqs' = [r \in ReqIds |-> IF reqs[r].by = p THEN [NoPromise EXCEPT !.state = "gone"] ELSE reqs[r]]
  /\ last' = NoLast
  /\ UNCHANGED <<nSent, nStops>>
  /\ UNCHANGED <<histVars, bridgeVars>>

\* ------------------------------------------------------------------ Message Router
getTargetsUnscoped(p, fp) == drawioClients[p]
\* getTargetDrawioClients(filePath)
getTargetDrawioClients(p, fp) ==
  IF ~fp.present THEN drawioClients[p]
  ELSE {c \in DOMAIN drawioClientFiles[p] :
          ServerEndOpen(c) /\ drawioClientFiles[p][c] = normalizePath(fp)}

\* client.send(payload) for every socket of a set that is OPEN
OpenOf(S) == {c \in S : ServerEndOpen(c)}
\* the frames sent to a relay's socket wait in down[c] for the relay's handler;
\* those sent to an editor or bridge are kept only for a socket whose receive
\* side is modelled (origin "kept")
Receives(c) == conn[c].cli # NoProc \/ conn[c].origin = "kept"
Deliver(dq, to, m) ==
  [c \in Conns |-> IF c \in to /\ Receives(c) THEN Append(dq[c], m) ELSE dq[c]]

QueueRoom == \A c \in Conns : Len(up[c]) < MaxQueue /\ Len(down[c]) < MaxQueue

ResponseForwardNone(p) == {}
\* the response branch of the server's message handler: for (const client of
\* clients) if OPEN, client.send(raw)
ResponseForward(p) == OpenOf(clients[p])

LocalTargetsBridgesOnBroadcast(p, m) ==
  OpenOf(getTargetDrawioClients(p, m.filePath))
    \cup (IF m.filePath.present THEN {} ELSE OpenOf(clients[p]))
LocalTargetsEditorsOnly(p, m) == OpenOf(getTargetDrawioClients(p, m.filePath))
\* the recipients of the server-mode branch of sendToDrawio
LocalTargets(p, m) == OpenOf(getTargetDrawioClients(p, m.filePath)) \cup OpenOf(clients[p])

\* sendToDrawio({...msg, pid: process.pid}): what it does to the sockets
sendToDrawio(p, m) ==
  IF isRelayMode[p] /\ relayWs[p] # NoConn /\ ClientEndOpen(relayWs[p])
  THEN /\ up' = [up EXCEPT ![relayWs[p]] = Append(@, m)]
       /\ down' = down
       /\ last' = [NoLast EXCEPT !.op = "relay", !.p = p, !.c = relayWs[p], !.msg = m]
  ELSE /\ up' = up
       /\ down' = Deliver(down, LocalTargets(p, m), m)
       /\ last' = [NoLast EXCEPT !.op = "send", !.p = p, !.msg = m, !.to = LocalTargets(p, m)]

\* a call of the exported sendToDrawio
Send(p, fp) ==
  /\ alive[p] /\ nSent < MaxSends /\ QueueRoom
  /\ nSent' = nSent + 1
  /\ sendToDrawio(p, Msg("status", fp, p, NoReq, FALSE))
  /\ UNCHANGED <<procVars, conn, clients, drawioClients, drawioClientFiles, pendingRequests, reqs, nStops>>
  /\ UNCHANGED <<histVars, bridgeVars>>

\* a call of sendToDrawioAndWait with a requestId from generateId()
SendAndWait(p, fp) ==
  /\ alive[p] /\ nSent < MaxSends /\ QueueRoom /\ FreeReqs # {}
  /\ nSent' = nSent + 1
  /\ reqs' = [reqs EXCEPT ![generateId] =
                [by |-> p, state |-> "pending", timer |-> TRUE, settles |-> 0, value |-> NoMsg]]
  /\ pendingRequests' = [pendingRequests EXCEPT ![p] = @ \cup {generateId}]
  /\ sendToDrawio(p, Msg("graph-edit", fp, p, generateId, FALSE))
  /\ UNCHANGED <<procVars, conn, clients, drawioClients, drawioClientFiles, nStops>>
  /\ UNCHANGED <<histVars, bridgeVars>>

ParseThrowsNever(m) == FALSE
\* the try block of a message handler throws before it has done anything:
\* JSON.parse rejects the text ("malformed"), or the text is the JSON value null
\* and reading msg.type throws ("null")
ParseThrows(m) == m.type \in {"malformed", "null"}

pendingRequestsHasAny(p, r) == reqs[r].state = "pending"
\* pendingRequests.get(msg.requestId) / pendingRequests.has(msg.requestId)
pendingRequestsHas(p, r) == r \in pendingRequests[p]

IsUserEvent(m) == m.type \in {"userSelection", "userCursor"}

tagNever(p, c, m) == m
\* const registeredFile = drawioClientFiles.get(ws); if (registeredFile)
\* msg.filePath = registeredFile
tagWithRegisteredFile(p, c, m) ==
  IF c \in DOMAIN drawioClientFiles[p]
  THEN [m EXCEPT !.filePath = FP(TRUE, drawioClientFiles[p][c])]
  ELSE m

RouteTargetsAll(p, m) == OpenOf(drawioClients[p])
RouteTargetsLikeSend(p, m) == OpenOf(getTargetDrawioClients(p, m.filePath)) \cup OpenOf(clients[p])
\* the editors a frame from a bridge or relay socket is forwarded to
RouteTargets(p, m) == OpenOf(getTargetDrawioClients(p, m.filePath))

\* attachConnectionHandlers: ws.on('message') at the server p, for socket c and frame m
OnMessage(p, c, m) ==
  LET ep == conn[c].ep IN
  IF ParseThrows(m)
  THEN /\ last' = [NoLast EXCEPT !.op = "ignored", !.p = p, !.c = c]
       /\ UNCHANGED <<down, drawioClientFiles, pendingRequests, reqs>>
  ELSE IF m.type = "register" /\ ep /\ m.filePath.present
  THEN /\ drawioClientFiles' = [drawioClientFiles EXCEPT ![p] = MapSet(@, c, normalizePath(m.filePath))]
       /\ last' = [NoLast EXCEPT !.op = "register", !.p = p, !.c = c, !.msg = m]
       /\ UNCHANGED <<down, pendingRequests, reqs>>
  ELSE IF ep /\ m.requestId # NoReq
  THEN /\ IF pendingRequestsHas(p, m.requestId)
          THEN /\ pendingRequests' = [pendingRequests EXCEPT ![p] = @ \ {m.requestId}]
               /\ reqs' = [reqs EXCEPT ![m.requestId] = ResolvePending(@, m)]
          ELSE UNCHANGED <<pendingRequests, reqs>>
       /\ down' = Deliver(down, ResponseForward(p), m)
       /\ last' = [NoLast EXCEPT !.op = "response", !.p = p, !.c = c, !.msg = m,
                                 !.to = ResponseForward(p)]
       /\ UNCHANGED drawioClientFiles
  ELSE IF ep /\ IsUserEvent(m)
  THEN LET tagged == tagWithRegisteredFile(p, c, m)
       IN /\ down' = Deliver(down, OpenOf(clients[p]), tagged)
          /\ last' = [NoLast EXCEPT !.op = "userEvent", !.p = p, !.c = c, !.msg = tagged,
                                    !.to = OpenOf(clients[p]), !.cb = TRUE]
          /\ UNCHANGED <<drawioClientFiles, pendingRequests, reqs>>
  ELSE IF ~ep
  THEN /\ down' = Deliver(down, RouteTargets(p, m), m)
       /\ last' = [NoLast EXCEPT !.op = "route", !.p = p, !.c = c, !.msg = m,
                                 !.to = RouteTargets(p, m)]
       /\ UNCHANGED <<drawioClientFiles, pendingRequests, reqs>>
  ELSE /\ last' = [NoLast EXCEPT !.op = "ignored", !.p = p, !.c = c]
       /\ UNCHANGED <<down, drawioClientFiles, pendingRequests, reqs>>

\* payloads that make a handler throw
MalformedFrames == {Msg("malformed", NoFile, NoProc, NoReq, FALSE), Msg("null", NoFile, NoProc, NoReq, FALSE)}

\* the frames an editor (Endpoint) or a bridge extension (Controller) may send
EndpointFrames ==
  {Msg("register", fp, NoProc, NoReq, FALSE) : fp \in FilePaths}
  \cup {Msg("result", NoFile, NoProc, r, ok) : r \in ReqIds, ok \in BOOLEAN}
  \cup {Msg("userSelection", NoFile, NoProc, NoReq, FALSE), Msg("userCursor", NoFile, NoProc, NoReq, FALSE)}
  \cup MalformedFrames
ControllerFrames ==
  {Msg("status", fp, NoProc, NoReq, FALSE) : fp \in FilePaths}
  \cup MalformedFrames
\* a register frame sent on a bridge socket
ControllerRegisterFrames == {Msg("register", fp, NoProc, NoReq, FALSE) : fp \in RawPaths}

\* the server's 'connection' event for an editor (/drawio, /drawio?file=...) or a
\* bridge extension (/)
ExtConnect(isDrawioPlugin, fileParam) ==
  LET p == portOwner IN
  /\ p \in Procs /\ alive[p] /\ wss[p] /\ ~Busy(p)
  /\ FreeIds # {}
  /\ isDrawioPlugin \/ ~fileParam.present
  /\ conn' = [conn EXCEPT ![NewId] =
                [cli |-> NoProc, ep |-> isDrawioPlugin, srv |-> p, cst |-> "open",
                 sst |-> "open", origin |-> "ext"]]
  /\ IF isDrawioPlugin
     THEN /\ drawioClients' = [drawioClients EXCEPT ![p] = @ \cup {NewId}]
          /\ drawioClientFiles' = IF fileParam.present
                                  THEN [drawioClientFiles EXCEPT ![p] = MapSet(@, NewId, normalizePath(fileParam))]
                                  ELSE drawioClientFiles
          /\ UNCHANGED clients
     ELSE /\ clients' = [clients EXCEPT ![p] = @ \cup {NewId}]
          /\ UNCHANGED <<drawioClients, drawioClientFiles>>
  /\ last' = NoLast
  /\ UNCHANGED <<procVars, up, down, pendingRequests, reqs, nSent, nStops>>
  /\ UNCHANGED <<histVars, bridgeVars>>

\* the same 'connection' event, for an editor or bridge whose socket keeps the
\* frames it is sent, in the order the server sent them
ExtConnectKept(isDrawioPlugin, fileParam) ==
  LET p == portOwner IN
  /\ p \in Procs /\ alive[p] /\ wss[p] /\ ~Busy(p)
  /\ FreeIds # {}
  /\ isDrawioPlugin \/ ~fileParam.present
  /\ conn' = [conn EXCEPT ![NewId] =
                [cli |-> NoProc, ep |-> isDrawioPlugin, srv |-> p, cst |-> "open",
                 sst |-> "open", origin |-> "kept"]]
  /\ IF isDrawioPlugin
     THEN /\ drawioClients' = [drawioClients EXCEPT ![p] = @ \cup {NewId}]
          /\ drawioClientFiles' = IF fileParam.present
                                  THEN [drawioClientFiles EXCEPT ![p] = MapSet(@, NewId, normalizePath(fileParam))]
                                  ELSE drawioClientFiles
          /\ UNCHANGED clients
     ELSE /\ clients' = [clients EXCEPT ![p] = @ \cup {NewId}]
          /\ UNCHANGED <<drawioClients, drawioClientFiles>>
  /\ last' = NoLast
  /\ UNCHANGED <<procVars, up, down, pendingRequests, reqs, nSent, nStops>>
  /\ UNCHANGED <<histVars, bridgeVars>>

\* an editor or bridge extension closes its socket (or its process ends)
ExtClose(c) ==
  /\ conn[c].cli = NoProc /\ conn[c].cst = "open"
  /\ conn' = Tidy([conn EXCEPT ![c].cst = "closed", ![c].sst = IF @ = "open" THEN "closing" ELSE @])
  /\ last' = NoLast
  /\ UNCHANGED <<procVars, up, down, clients, drawioClients, drawioClientFiles,
                 pendingRequests, reqs, nSent, nStops>>
  /\ UNCHANGED <<histVars, bridgeVars>>

\* a frame from an editor or bridge extension arrives at the server
ExtMessage(c, m) ==
  LET p == conn[c].srv IN
  /\ conn[c].cli = NoProc /\ conn[c].cst = "open" /\ conn[c].sst = "open"
  /\ alive[p] /\ ~Busy(p) /\ QueueRoom
  /\ m \in (IF conn[c].ep THEN EndpointFrames ELSE ControllerFrames)
  /\ OnMessage(p, c, m)
  /\ UNCHANGED <<procVars, conn, up, clients, drawioClients, nSent, nStops>>
  /\ UNCHANGED <<histVars, bridgeVars>>

\* a frame from an editor or bridge extension arrives at the server after
\* stopSidecar has called close() on the socket and before its 'close' event;
\* a bridge may send a register frame as well
ExtMessageClosing(c, m) ==
  LET p == conn[c].srv IN
  /\ conn[c].cli = NoProc /\ conn[c].cst = "open" /\ conn[c].sst \in {"open", "closing"}
  /\ conn[c].origin = "kept"
  /\ alive[p] /\ ~Busy(p) /\ QueueRoom
  /\ m \in (IF conn[c].ep THEN EndpointFrames ELSE ControllerFrames \cup ControllerRegisterFrames)
  /\ OnMessage(p, c, m)
  /\ UNCHANGED <<procVars, conn, up, clients, drawioClients, nSent, nStops>>
  /\ UNCHANGED <<histVars, bridgeVars>>

\* a frame a relay forwarded arrives at the server
ServerRecv(c) ==
  LET p == conn[c].srv IN
  /\ up[c] # <<>> /\ conn[c].sst \in {"open", "closing"}
  /\ alive[p] /\ ~Busy(p) /\ QueueRoom
  /\ up' = [up EXCEPT ![c] = Tail(@)]
  /\ OnMessage(p, c, Head(up[c]))
  /\ UNCHANGED <<procVars, conn, clients, drawioClients, nSent, nStops>>
  /\ UNCHANGED <<histVars, bridgeVars>>

\* connectRelay: ws.on('message') at the relay q, for the upstream socket c and frame m
RelayOnMessage(q, c, m) ==
  IF ParseThrows(m)
  THEN /\ last' = [NoLast EXCEPT !.op = "ignored", !.p = q, !.c = c]
       /\ UNCHANGED <<pendingRequests, reqs>>
  ELSE IF m.requestId # NoReq /\ pendingRequestsHas(q, m.requestId)
  THEN /\ pendingRequests' = [pendingRequests EXCEPT ![q] = @ \ {m.requestId}]
       /\ reqs' = [reqs EXCEPT ![m.requestId] = ResolvePending(@, m)]
       /\ last' = [NoLast EXCEPT !.op = "relayResolve", !.p = q, !.c = c, !.msg = m]
  ELSE /\ last' = [NoLast EXCEPT !.op = "relayMessage", !.p = q, !.c = c, !.msg = m,
                                 !.cb = IsUserEvent(m)]
       /\ UNCHANGED <<pendingRequests, reqs>>

\* a frame the server sent arrives at the relay
RelayRecv(c) ==
  LET q == conn[c].cli IN
  /\ q # NoProc /\ down[c] # <<>> /\ conn[c].cst \in {"open", "closing"}
  /\ alive[q] /\ ~Busy(q)
  /\ down' = [down EXCEPT ![c] = Tail(@)]
  /\ RelayOnMessage(q, c, Head(down[c]))
  /\ UNCHANGED <<procVars, conn, up, clients, drawioClients, drawioClientFiles, nSent, nStops>>
  /\ UNCHANGED <<histVars, bridgeVars>>

\* a payload that is not a frame of this protocol arrives on the relay's upstream
\* socket (the port may be held by any program)
UpstreamRaw(c, m) ==
  LET q == conn[c].cli IN
  /\ q # NoProc /\ conn[c].cst = "open" /\ down[c] = <<>>
  /\ alive[q] /\ ~Busy(q)
  /\ m \in MalformedFrames
  /\ RelayOnMessage(q, c, m)
  /\ UNCHANGED <<procVars, conn, up, down, clients, drawioClients, drawioClientFiles, nSent, nStops>>
  /\ UNCHANGED <<histVars, bridgeVars>>

\* getClientCount() in server mode: the sizes of the two sets and the distinct
\* registered files
registeredFiles(files) == {files[k] : k \in DOMAIN files}
getClientCount(p) ==
  [extensions |-> Cardinality(clients[p]), drawioPlugins |-> Cardinality(drawioClients[p]),
   registeredFiles |-> registeredFiles(drawioClientFiles[p])]

\* ------------------------------------------------------------------ change history
\* One action is one run of a tool call of src/src/drawio.ts up to its next
\* await; tool calls may overlap.

\* Array.prototype.pop(): the array afterwards, and the value returned
ArrayPop(a) == IF a = <<>> THEN a ELSE SubSeq(a, 1, Len(a) - 1)
ArrayLast(a) == IF a = <<>> THEN NoRecord ELSE a[Len(a)]

\* recordChange: changeHistory.push(fullRecord), then the splice to MAX_HISTORY
recordChange(h, rec) ==
  LET pushed == Append(h, rec) IN
  IF Len(pushed) > MAX_HISTORY
  THEN SubSeq(pushed, Len(pushed) - MAX_HISTORY + 1, Len(pushed))
  ELSE pushed

undoneAfterRecordKept(u) == u
\* recordChange: undoneRecords = []
undoneAfterRecord(u) == <<>>

restoreXmlAfter(rec) == rec.afterXml
\* undoLastOperation: writeXml(record.filePath, record.beforeXml)
restoreXml(rec) == rec.beforeXml

redoXmlBefore(rec) == rec.beforeXml
\* redoLastOperation: writeXml(record.filePath, record.afterXml)
redoXml(rec) == rec.afterXml

histState == [history |-> changeHistory, undone |-> undoneRecords, files |-> fileXml]

\* createDiagramFile(filePath): writes an empty diagram, records nothing
CreateDiagramFile(f) ==
  /\ fileXml' = [fileXml EXCEPT ![f] = EmptyDiagram]
  /\ hlast' = HNote("create", TRUE, NoRecord, 0, 0)
  /\ hsnap' = NoSnap
  /\ UNCHANGED <<changeHistory, undoneRecords, calls, nextChangeId>>
  /\ UNCHANGED <<sidecarVars, bridgeVars>>

\* addNode, addEdge, updateElement, removeElement, addPage: beforeXml =
\* await readRawXml(resolvedPath)
EditRead(k, f) ==
  /\ calls[k] = NoCall
  /\ (nextChangeId - 1) + Cardinality({j \in CallIds : calls[j].kind = "edit"}) < MaxChanges
  /\ calls' = [calls EXCEPT ![k] = [kind |-> "edit", stage |-> "read", filePath |-> f,
                                     beforeXml |-> fileXml[f], record |-> NoRecord]]
  /\ hlast' = HNote("editRead", TRUE, NoRecord, k, 0)
  /\ hsnap' = NoSnap
  /\ UNCHANGED <<changeHistory, undoneRecords, fileXml, nextChangeId>>
  /\ UNCHANGED <<sidecarVars, bridgeVars>>

\* ... await writeXml(resolvedPath, xml), xml being the edited content
EditWrite(k, x) ==
  /\ calls[k].kind = "edit" /\ calls[k].stage = "read"
  /\ fileXml' = [fileXml EXCEPT ![calls[k].filePath] = x]
  /\ calls' = [calls EXCEPT ![k].stage = "written"]
  /\ hlast' = HNote("editWrite", TRUE, NoRecord, k, 0)
  /\ hsnap' = NoSnap
  /\ UNCHANGED <<changeHistory, undoneRecords, nextChangeId>>
  /\ UNCHANGED <<sidecarVars, bridgeVars>>

\* ... afterXml = await readRawXml(resolvedPath); recordChange({...})
EditRecord(k) ==
  LET rec == [id |-> nextChangeId, filePath |-> calls[k].filePath,
              beforeXml |-> calls[k].beforeXml, afterXml |-> fileXml[calls[k].filePath]]
  IN
  /\ calls[k].kind = "edit" /\ calls[k].stage = "written"
  /\ changeHistory' = recordChange(changeHistory, rec)
  /\ undoneRecords' = undoneAfterRecord(undoneRecords)
  /\ nextChangeId' = nextChangeId + 1
  /\ calls' = [calls EXCEPT ![k] = NoCall]
  /\ hlast' = HNote("record", TRUE, rec, k, 0)
  /\ hsnap' = NoSnap
  /\ UNCHANGED fileXml
  /\ UNCHANGED <<sidecarVars, bridgeVars>>

\* undoLastOperation() up to its await: changeHistory.pop(); return
\* { success: false } when there was no record
Undo(k) ==
  LET rec == ArrayLast(changeHistory) IN
  /\ calls[k] = NoCall
  /\ IF changeHistory = <<>>
     THEN /\ hlast' = HNote("undo", FALSE, NoRecord, k, 0)
          /\ hsnap' = NoSnap
          /\ UNCHANGED <<changeHistory, calls>>
     ELSE /\ changeHistory' = ArrayPop(changeHistory)
          /\ calls' = [calls EXCEPT ![k] = [kind |-> "undo", stage |-> "write", filePath |-> rec.filePath,
                                             beforeXml |-> NoXml, record |-> rec]]
          /\ hlast' = HNote("undoCall", TRUE, rec, k, 1)
          /\ hsnap' = histState
  /\ UNCHANGED <<undoneRecords, fileXml, nextChangeId>>
  /\ UNCHANGED <<sidecarVars, bridgeVars>>

\* undoLastOperation() after await writeXml(...): undoneRecords.push(record);
\* return { success: true, record }
UndoDone(k) ==
  LET rec == calls[k].record
      chain == IF hlast.chain = 1 /\ hlast.k = k THEN 2 ELSE 0
  IN
  /\ calls[k].kind = "undo"
  /\ fileXml' = [fileXml EXCEPT ![rec.filePath] = restoreXml(rec)]
  /\ undoneRecords' = Append(undoneRecords, rec)
  /\ calls' = [calls EXCEPT ![k] = NoCall]
  /\ hlast' = HNote("undo", TRUE, rec, k, chain)
  /\ hsnap' = IF chain = 2 THEN hsnap ELSE NoSnap
  /\ UNCHANGED <<changeHistory, nextChangeId>>
  /\ UNCHANGED <<sidecarVars, bridgeVars>>

\* redoLastOperation() up to its await: undoneRecords.pop(); return
\* { success: false } when there was no record or it has no afterXml
Redo(k) ==
  LET rec == ArrayLast(undoneRecords)
      chain == IF hlast.chain = 2 THEN 3 ELSE 0
  IN
  /\ calls[k] = NoCall
  /\ undoneRecords' = ArrayPop(undoneRecords)
  /\ IF undoneRecords = <<>> \/ rec.afterXml = NoXml
     THEN /\ hlast' = HNote("redo", FALSE, NoRecord, k, 0)
          /\ hsnap' = NoSnap
          /\ UNCHANGED calls
     ELSE /\ calls' = [calls EXCEPT ![k] = [kind |-> "redo", stage |-> "write", filePath |-> rec.filePath,
                                             beforeXml |-> NoXml, record |-> rec]]
          /\ hlast' = HNote("redoCall", TRUE, rec, k, chain)
          /\ hsnap' = IF chain = 3 THEN hsnap ELSE NoSnap
  /\ UNCHANGED <<changeHistory, fileXml, nextChangeId>>
  /\ UNCHANGED <<sidecarVars, bridgeVars>>

\* redoLastOperation() after await writeXml(...): changeHistory.push(record);
\* return { success: true, record }
RedoDone(k) ==
  LET rec == calls[k].record
      chain == IF hlast.chain = 3 /\ hlast.k = k THEN 4 ELSE 0
  IN
  /\ calls[k].kind = "redo"
  /\ fileXml' = [fileXml EXCEPT ![rec.filePath] = redoXml(rec)]
  /\ changeHistory' = Append(changeHistory, rec)
  /\ calls' = [calls EXCEPT ![k] = NoCall]
  /\ hlast' = HNote("redo", TRUE, rec, k, chain)
  /\ hsnap' = IF chain = 4 THEN hsnap ELSE NoSnap
  /\ UNCHANGED <<undoneRecords, nextChangeId>>
  /\ UNCHANGED <<sidecarVars, bridgeVars>>

\* ------------------------------------------------------------------ bridge client
\* One action is one method call or one callback of a BridgeClient
\* (vscode-drawio-mcp-bridge/src/bridge-client.ts).
FreeSocks == {s \in BridgeSocks : bsock[s].st = "none" /\ ~bsock[s].timeout}
NewSock == CHOOSE s \in FreeSocks : \A t \in FreeSocks : s <= t

\* ws.close() / ws.terminate() on socket s: its events are due
CloseSock(bs, s) ==
  IF s = NoSock THEN bs
  ELSE [bs EXCEPT ![s].st = IF @ = "connecting" THEN "aborting"
                            ELSE IF @ = "open" THEN "closing" ELSE @]

\* scheduleReconnect(): sets the timer unless one is pending
bridgeScheduleReconnect(t) == IF t THEN t ELSE TRUE

\* the 'close' handler, for the timer: this.scheduleReconnect()
bridgeCloseHandler(t) == bridgeScheduleReconnect(t)

\* the body of connect(): a new socket with its handlers and its 5 s timeout
bridgeConnect ==
  /\ FreeSocks # {}
  /\ bsock' = [bsock EXCEPT ![NewSock] = [st |-> "connecting", timeout |-> TRUE]]
  /\ bridgeWs' = NewSock

\* connect() called by the extension
BridgeConnect ==
  /\ bridgeConnect
  /\ userDisconnected' = FALSE
  /\ UNCHANGED <<reconnectTimer, isConnected>>
  /\ UNCHANGED <<sidecarVars, histVars>>

\* ws.on('open')
BridgeOpen(s) ==
  /\ bsock[s].st = "connecting"
  /\ bsock' = [bsock EXCEPT ![s] = [st |-> "open", timeout |-> FALSE]]
  /\ isConnected' = TRUE
  /\ UNCHANGED <<bridgeWs, reconnectTimer, userDisconnected>>
  /\ UNCHANGED <<sidecarVars, histVars>>

\* the connection is refused, or closed before it opened: ws.on('error'), then
\* ws.on('close')
BridgeError(s) ==
  /\ bsock[s].st \in {"connecting", "aborting"}
  /\ bsock' = [bsock EXCEPT ![s] = NoSocket]
  /\ isConnected' = FALSE
  /\ reconnectTimer' = bridgeCloseHandler(reconnectTimer)
  /\ UNCHANGED <<bridgeWs, userDisconnected>>
  /\ UNCHANGED <<sidecarVars, histVars>>

\* the 5 s timeout of the connect() call that created s: this.ws?.terminate()
BridgeConnectTimeout(s) ==
  /\ bsock[s].timeout
  /\ bsock' = [CloseSock(bsock, bridgeWs) EXCEPT ![s].timeout = FALSE]
  /\ UNCHANGED <<bridgeWs, reconnectTimer, isConnected, userDisconnected>>
  /\ UNCHANGED <<sidecarVars, histVars>>

\* ws.on('close') of a socket that had opened: the server closed it, or the
\* close() or terminate() of this client takes effect
BridgeClose(s) ==
  /\ bsock[s].st \in {"open", "closing"}
  /\ bsock' = [bsock EXCEPT ![s].st = "none"]
  /\ isConnected' = FALSE
  /\ reconnectTimer' = bridgeCloseHandler(reconnectTimer)
  /\ UNCHANGED <<bridgeWs, userDisconnected>>
  /\ UNCHANGED <<sidecarVars, histVars>>

\* disconnect()
BridgeDisconnect ==
  /\ reconnectTimer' = FALSE
  /\ bsock' = CloseSock(bsock, bridgeWs)
  /\ bridgeWs' = NoSock
  /\ isConnected' = FALSE
  /\ userDisconnected' = TRUE
  /\ UNCHANGED <<sidecarVars, histVars>>

\* the reconnect timer fires: this.connect().catch(() => {})
BridgeTimerFire ==
  /\ reconnectTimer
  /\ reconnectTimer' = FALSE
  /\ bridgeConnect
  /\ UNCHANGED <<isConnected, userDisconnected>>
  /\ UNCHANGED <<sidecarVars, histVars>>

\* ------------------------------------------------------------------ specifications
\* the processes that exist at the beginning; the port is free or barred by the OS
InitWith(ps) ==
  /\ alive = [p \in Procs |-> p \in ps]
  /\ portOwner \in {NoProc, Denied}
  /\ InitCommon

Lifecycle ==
  \/ \E p \in Procs : Start(p)
  \/ \E p \in Procs : BecomeServer(p)
  \/ \E p \in Procs : TimerFire(p)
  \/ \E p \in Procs : Stop(p)
  \/ \E p \in Procs : Kill(p)
  \/ \E c \in Conns : Accept(c)
  \/ \E c \in Conns : RelayOpen(c)
  \/ \E c \in Conns : ConnectFail(c)
  \/ \E c \in Conns : ConnectTimeout(c)
  \/ \E c \in Conns : RelayClose(c)
  \/ \E c \in Conns : ServerClose(c)

\* all processes, lifecycle only: the election
InitArb == InitWith(Procs)
NextArb == Lifecycle
SpecArb == InitArb /\ [][NextArb]_vars

\* one process, its calls of startSidecar awaited, with editors, bridge
\* extensions and traffic
InitRoute == InitWith({1})
NextRoute ==
  \/ \E p \in Procs : ~Busy(p) /\ Start(p)
  \/ \E p \in Procs : BecomeServer(p)
  \/ \E p \in Procs : Stop(p)
  \/ \E b \in BOOLEAN, fp \in FilePaths : ExtConnect(b, fp)
  \/ \E c \in Conns : ExtClose(c)
  \/ \E c \in Conns, m \in EndpointFrames \cup ControllerFrames : ExtMessage(c, m)
  \/ \E c \in Conns : ServerClose(c)
  \/ \E p \in Procs, fp \in FilePaths : Send(p, fp)
  \/ \E p \in Procs, fp \in FilePaths : SendAndWait(p, fp)
  \/ \E r \in ReqIds : Timeout(r)
SpecRoute == InitRoute /\ [][NextRoute]_vars

\* a server and a relay, each started once, with editors and requests
InitRelay == InitWith({1, 2}) /\ portOwner = NoProc
NextRelay ==
  \/ \E p \in Procs : startResult[p] = "none" /\ Start(p)
  \/ \E p \in Procs : BecomeServer(p)
  \/ \E p \in Procs : TimerFire(p)
  \/ \E p \in Procs : Stop(p)
  \/ \E c \in Conns : Accept(c)
  \/ \E c \in Conns : RelayOpen(c)
  \/ \E c \in Conns : ConnectFail(c)
  \/ \E c \in Conns : RelayClose(c)
  \/ \E c \in Conns : ServerClose(c)
  \/ \E fp \in {FP(FALSE, <<"..", "TMP", "A">>), FP(TRUE, <<"tmp", "b">>)} : ExtConnect(TRUE, fp)
  \/ \E c \in Conns, r \in ReqIds : ExtMessage(c, Msg("result", NoFile, NoProc, r, TRUE))
  \/ \E c \in Conns : ServerRecv(c)
  \/ \E c \in Conns : RelayRecv(c)
  \/ \E p \in Procs, fp \in {NoFile, FP(TRUE, <<"tmp", "a">>)} : Send(p, fp)
  \/ \E p \in Procs, fp \in {NoFile, FP(TRUE, <<"tmp", "a">>)} : SendAndWait(p, fp)
  \/ \E r \in ReqIds : Timeout(r)
SpecRelay == InitRelay /\ [][NextRelay]_vars

\* SpecRelay with the event loop running: a pending timer fires, a resolved bind
\* is continued
SpecRelayFair ==
  /\ SpecRelay
  /\ \A r \in ReqIds : WF_vars(Timeout(r))
  /\ \A p \in Procs : WF_vars(BecomeServer(p))

\* the failover: every process starts once, nobody calls stopSidecar, the
\* server may die
InitFailover == InitWith(Procs) /\ portOwner = NoProc
NextFailover ==
  \/ \E p \in Procs : startResult[p] = "none" /\ Start(p)
  \/ \E p \in Procs : BecomeServer(p)
  \/ \E p \in Procs : TimerFire(p)
  \/ \E p \in Procs : IsLeader(p) /\ Kill(p)
  \/ \E c \in Conns : Accept(c)
  \/ \E c \in Conns : RelayOpen(c)
  \/ \E c \in Conns : ConnectFail(c)
  \/ \E c \in Conns : ConnectTimeout(c)
  \/ \E c \in Conns : RelayClose(c)
  \/ \E c \in Conns : ServerClose(c)
SpecFailover ==
  /\ InitFailover /\ [][NextFailover]_vars
  /\ \A p \in Procs : WF_vars(BecomeServer(p)) /\ WF_vars(TimerFire(p))
  /\ \A c \in Conns : WF_vars(RelayClose(c)) /\ WF_vars(ConnectFail(c)) /\ WF_vars(ServerClose(c))

\* SpecFailover with a server that answers: a connection attempt made again and
\* again is accepted and opens before its 5 s timeout at some point
SpecFailoverFair ==
  /\ SpecFailover
  /\ \A c \in Conns : SF_vars(Accept(c)) /\ SF_vars(RelayOpen(c))

\* starts one after another on a free port: a process calls startSidecar only
\* when no other start is in flight; nobody dies or stops
StartInFlight == \E q \in Procs : startResult[q] = "pending" \/ Busy(q)
InitSeq == InitWith(Procs) /\ portOwner = NoProc
NextSeq ==
  \/ \E p \in Procs : startResult[p] = "none" /\ ~StartInFlight /\ Start(p)
  \/ \E p \in Procs : BecomeServer(p)
  \/ \E p \in Procs : TimerFire(p)
  \/ \E c \in Conns : Accept(c)
  \/ \E c \in Conns : RelayOpen(c)
  \/ \E c \in Conns : ConnectTimeout(c)
  \/ \E c \in Conns : ServerClose(c)
SpecSeq ==
  /\ InitSeq /\ [][NextSeq]_vars
  /\ \A p \in Procs : WF_vars(startResult[p] = "none" /\ ~StartInFlight /\ Start(p))
  /\ \A p \in Procs : WF_vars(BecomeServer(p)) /\ WF_vars(TimerFire(p))
  /\ \A c \in Conns : WF_vars(ServerClose(c)) /\ SF_vars(Accept(c)) /\ SF_vars(RelayOpen(c))

\* a server, a relay, an editor or a bridge, and every kind of inbound payload,
\* well-formed or not, on every kind of socket
InitInbound == InitWith({1, 2}) /\ portOwner = NoProc
NextInbound ==
  \/ \E p \in Procs : startResult[p] = "none" /\ Start(p)
  \/ \E p \in Procs : BecomeServer(p)
  \/ \E c \in Conns : Accept(c)
  \/ \E c \in Conns : RelayOpen(c)
  \/ \E b \in BOOLEAN : ExtConnect(b, NoFile)
  \/ \E c \in Conns, m \in EndpointFrames \cup ControllerFrames :
        (m.filePath = NoFile /\ ~m.success) /\ ExtMessage(c, m)
  \/ \E c \in Conns, m \in MalformedFrames : UpstreamRaw(c, m)
  \/ \E p \in Procs : SendAndWait(p, NoFile)
  \/ \E c \in Conns : ServerRecv(c)
  \/ \E c \in Conns : RelayRecv(c)
SpecInbound == InitInbound /\ [][NextInbound]_vars

\* the tool calls of drawio.ts that write diagram files and the history; the
\* sidecar is not started
InitHist == InitWith({}) /\ portOwner = NoProc
NextHist ==
  \/ \E f \in DiagramFiles : CreateDiagramFile(f)
  \/ \E k \in CallIds, f \in DiagramFiles : EditRead(k, f)
  \/ \E k \in CallIds, x \in Xmls : EditWrite(k, x)
  \/ \E k \in CallIds : EditRecord(k)
  \/ \E k \in CallIds : Undo(k)
  \/ \E k \in CallIds : UndoDone(k)
  \/ \E k \in CallIds : Redo(k)
  \/ \E k \in CallIds : RedoDone(k)
SpecHist == InitHist /\ [][NextHist]_vars

\* one process whose calls of startSidecar may overlap (a second call before the
\* first call's promise settles), with its own sends and requests
InitOverlap == InitWith({1}) /\ portOwner = NoProc
NextOverlap ==
  \/ \E p \in Procs : Start(p)
  \/ \E p \in Procs : BecomeServer(p)
  \/ \E p \in Procs : TimerFire(p)
  \/ \E p \in Procs : Stop(p)
  \/ \E c \in Conns : Accept(c)
  \/ \E c \in Conns : RelayOpen(c)
  \/ \E c \in Conns : ConnectFail(c)
  \/ \E c \in Conns : ConnectTimeout(c)
  \/ \E c \in Conns : RelayClose(c)
  \/ \E c \in Conns : ServerClose(c)
  \/ \E p \in Procs : Send(p, NoFile)
  \/ \E p \in Procs : SendAndWait(p, NoFile)
  \/ \E c \in Conns : ServerRecv(c)
  \/ \E c \in Conns : RelayRecv(c)
  \/ \E r \in ReqIds : Timeout(r)
SpecOverlap == InitOverlap /\ [][NextOverlap]_vars

\* two processes whose starts may overlap, an editor whose received frames are
\* kept in order, and requests sent one after another
InitOrder == InitWith({1, 2}) /\ portOwner = NoProc
NextOrder ==
  \/ \E p \in Procs : Start(p)
  \/ \E p \in Procs : BecomeServer(p)
  \/ \E c \in Conns : Accept(c)
  \/ \E c \in Conns : RelayOpen(c)
  \/ \E c \in Conns : ConnectTimeout(c)
  \/ \E b \in BOOLEAN, fp \in {NoFile, FP(TRUE, <<"tmp", "b">>)} : ExtConnectKept(b, fp)
  \/ \E p \in Procs, fp \in {NoFile, FP(TRUE, <<"tmp", "b">>)} : SendAndWait(p, fp)
  \/ \E c \in Conns : ServerRecv(c)
  \/ \E c \in Conns : RelayRecv(c)
SpecOrder == InitOrder /\ [][NextOrder]_vars

\* one process, its starts awaited, with editors and bridges whose sockets go
\* through the close handshake when the process stops
RegistryFrames ==
  {Msg("register", fp, NoProc, NoReq, FALSE) : fp \in {NoFile, FP(TRUE, <<"tmp", "b">>)}}
  \cup {Msg("userSelection", NoFile, NoProc, NoReq, FALSE)}
InitRegistry == InitWith({1}) /\ portOwner = NoProc
NextRegistry ==
  \/ \E p \in Procs : ~Busy(p) /\ Start(p)
  \/ \E p \in Procs : BecomeServer(p)
  \/ \E p \in Procs : Stop(p)
  \/ \E b \in BOOLEAN, fp \in {NoFile, FP(TRUE, <<"tmp", "a">>)} : ExtConnectKept(b, fp)
  \/ \E c \in Conns : ExtClose(c)
  \/ \E c \in Conns, m \in RegistryFrames : ExtMessageClosing(c, m)
  \/ \E c \in Conns : ServerClose(c)
SpecRegistry == InitRegistry /\ [][NextRegistry]_vars

\* a BridgeClient and the server it connects to; the sidecar of this process is
\* not started
InitBridge == InitWith({}) /\ portOwner = NoProc
NextBridge ==
  \/ BridgeConnect
  \/ \E s \in BridgeSocks : BridgeOpen(s)
  \/ \E s \in BridgeSocks : BridgeError(s)
  \/ \E s \in BridgeSocks : BridgeConnectTimeout(s)
  \/ \E s \in BridgeSocks : BridgeClose(s)
  \/ BridgeDisconnect
  \/ BridgeTimerFire
SpecBridge == InitBridge /\ [][NextBridge]_vars

\* ------------------------------------------------------------------ claims
\* C1: in every reachable state at most one live process is in server mode
\* (Leader), whatever the interleaving of start, retry ticks, stop and deaths.
C1_AtMostOneLeader == Cardinality(Leaders) <= 1

\* C1 witness: the server has died, the port is free, and two surviving relays
\* both have their retry timer pending: the race to rebind.
C1_RelaysRace ==
  /\ portOwner = NoProc
  /\ \E p \in Procs : ~alive[p]
  /\ Cardinality({q \in Procs : alive[q] /\ isRelayMode[q] /\ relayReconnectTimer[q] > 0}) >= 2

\* the file each raw path of RawPaths names, written out by hand
ExpectedFile(fp) ==
  CASE fp = FP(TRUE, <<"tmp", "a">>) -> <<"tmp", "a">>
    [] fp = FP(FALSE, <<"..", "TMP", "A">>) -> <<"tmp", "a">>
    [] fp = FP(TRUE, <<"tmp", "b">>) -> <<"tmp", "b">>

\* C2: a server-mode send with filePath F reaches, among the editors (Endpoints),
\* only those whose registered file is the normalized F; an editor registered to
\* another file, or to none, is not among the recipients.
C2_ScopedOnlyToRegistered ==
  (last.op = "send" /\ last.msg.filePath.present /\ wss[last.p]) =>
    \A c \in last.to : conn[c].ep =>
       /\ c \in DOMAIN drawioClientFiles[last.p]
       /\ drawioClientFiles[last.p][c] = ExpectedFile(last.msg.filePath)

\* C2 witness: a scoped send reached one editor while another open editor,
\* registered to a different file, was left out.
C2_ScopedSendSkipsOther ==
  /\ last.op = "send" /\ last.msg.filePath.present
  /\ \E c1, c2 \in Conns :
       /\ conn[c1].ep /\ c1 \in last.to
       /\ conn[c2].ep /\ conn[c2].sst = "open" /\ c2 \notin last.to
       /\ c2 \in DOMAIN drawioClientFiles[last.p]

\* C3: a server-mode send without filePath reaches every socket of the server
\* that is open, editors (registered or not) and bridge/relay sockets alike.
C3_BroadcastReachesAll ==
  (last.op = "send" /\ ~last.msg.filePath.present /\ wss[last.p]) =>
    last.to = {c \in Conns : conn[c].srv = last.p /\ conn[c].sst = "open"}

\* C3 witness: a broadcast reached an editor and a bridge extension.
C3_BroadcastToBoth ==
  /\ last.op = "send" /\ ~last.msg.filePath.present
  /\ \E c1, c2 \in last.to : conn[c1].ep /\ ~conn[c2].ep

\* the promises sendToDrawioAndWait has returned to a process that still runs
Issued == {r \in ReqIds : reqs[r].state \notin {"none", "gone"}}

\* a promise is unsettled exactly while its deadline timer is pending, and no
\* promise has been settled twice
SettledAtMostOnce ==
  \A r \in Issued :
    /\ reqs[r].settles <= 1
    /\ (reqs[r].settles = 0) <=> reqs[r].timer
    /\ (reqs[r].settles = 0) <=> (reqs[r].state = "pending")

\* C4: every promise of sendToDrawioAndWait is settled exactly once: a response,
\* the deadline timer and stopSidecar never settle the same promise twice
\* (never two), and a pending promise is eventually resolved, timed out or
\* rejected by stopSidecar (never none).
C4_SettledExactlyOnce ==
  /\ []SettledAtMostOnce
  /\ \A r \in ReqIds :
       (reqs[r].state = "pending") ~> (reqs[r].state \in {"resolved", "timeout", "stopped"})

\* C4 witness: one promise resolved by a response, another rejected (by its
\* timer or by stopSidecar).
C4_BothOutcomes ==
  \E r1, r2 \in Issued :
    /\ reqs[r1].state = "resolved" /\ reqs[r1].settles = 1
    /\ reqs[r2].state \in {"timeout", "stopped"} /\ reqs[r2].settles = 1

\* C5 (as claimed): in whichever role the process is (Leader, Relay or
\* RetryPending), after stopSidecar its pending map is empty and every promise
\* that was pending is rejected "stopped".
C5_StopRejectsAll ==
  [][\A p \in Procs : (Stop(p) /\ (IsLeader(p) \/ IsRelay(p) \/ IsRetryPending(p))) =>
        /\ pendingRequests'[p] = {}
        /\ \A r \in ReqIds : (reqs[r].by = p /\ reqs[r].state = "pending")
                                => reqs'[r].state = "stopped"]_vars

\* C5, the Leader case alone: stopSidecar of a process whose server is set
\* rejects every pending promise and empties the map.
C5_LeaderStopRejectsAll ==
  [][\A p \in Procs : (Stop(p) /\ wss[p]) =>
        /\ pendingRequests'[p] = {}
        /\ \A r \in ReqIds : (reqs[r].by = p /\ reqs[r].state = "pending")
                                => reqs'[r].state = "stopped"]_vars

\* C5 divergence: a process that forwarded a request upstream as a Relay has
\* since called stopSidecar, and the promise is still unsettled with its entry
\* in the map, left to its timer.
C5_RelayStoppedStillPending ==
  \E r \in Issued : \E c \in Conns :
    /\ conn[c].cli = reqs[r].by /\ conn[c].cst \in {"closing", "closed"}
    /\ \E i \in 1..Len(up[c]) : up[c][i].requestId = r
    /\ nStops > 0 /\ ~wss[reqs[r].by] /\ ~isRelayMode[reqs[r].by]
    /\ relayWs[reqs[r].by] = NoConn
    /\ reqs[r].state = "pending" /\ r \in pendingRequests[reqs[r].by]

\* C7: when a frame with requestId r arrives from an editor socket at a server
\* that has r pending, the promise is resolved with that frame, and the entry and
\* its timer are gone.
C7_ResponseResolves ==
  [][\A c \in Conns, m \in EndpointFrames :
        (ExtMessage(c, m) /\ conn[c].ep /\ wss[conn[c].srv] /\ m.type = "result"
           /\ m.requestId \in pendingRequests[conn[c].srv])
        => /\ reqs'[m.requestId].state = "resolved"
           /\ reqs'[m.requestId].value = m
           /\ reqs'[m.requestId].value.requestId = m.requestId
           /\ ~reqs'[m.requestId].timer
           /\ m.requestId \notin pendingRequests'[conn[c].srv]]_vars

\* C7 witness: a server-mode process holds a promise resolved with a response
\* whose success flag is set.
C7_ResolvedOnLeader ==
  \E r \in Issued :
    /\ reqs[r].state = "resolved" /\ reqs[r].value.success /\ reqs[r].value.requestId = r
    /\ wss[reqs[r].by] /\ last.op = "response" /\ last.msg.requestId = r

\* C10: an entry of pendingRequests exists only while its deadline timer is
\* pending; a promise rejected by its timer has no entry.
C10_NoEntryPastDeadline ==
  /\ \A p \in Procs : \A r \in pendingRequests[p] : reqs[r].by = p /\ reqs[r].timer
  /\ \A r \in Issued : reqs[r].state = "timeout" => r \notin pendingRequests[reqs[r].by]

\* C10 witness: a request sent by a server to an open editor that never
\* answered has timed out and left no entry.
C10_TimedOut ==
  \E r \in Issued :
    /\ reqs[r].state = "timeout" /\ reqs[r].settles = 1 /\ ~reqs[r].timer
    /\ pendingRequests[reqs[r].by] = {}
    /\ wss[reqs[r].by]
    /\ \E c \in drawioClients[reqs[r].by] : conn[c].sst = "open"

\* C6: a request a Relay issues goes upstream; the server routes it to the open
\* editors registered for its file; an editor's answer with a requestId is
\* forwarded by the server to every open Controller connection, the Relay's
\* included; and the Relay, receiving a frame whose requestId it has pending,
\* resolves the promise with that frame and drops the entry and the timer.
C6_RelayRoundTrip ==
  /\ [][\A p \in Procs, fp \in FilePaths :
          (SendAndWait(p, fp) /\ IsRelay(p)) =>
             /\ Len(up'[relayWs[p]]) = Len(up[relayWs[p]]) + 1
             /\ up'[relayWs[p]][Len(up'[relayWs[p]])] = Msg("graph-edit", fp, p, generateId, FALSE)
             /\ down' = down]_vars
  /\ [][\A c \in Conns :
          (ServerRecv(c) /\ wss[conn[c].srv] /\ Head(up[c]).requestId # NoReq) =>
             /\ last'.op = "route" /\ last'.msg = Head(up[c])
             /\ last'.to = {e \in drawioClients[conn[c].srv] :
                              /\ conn[e].sst = "open"
                              /\ Head(up[c]).filePath.present =>
                                   /\ e \in DOMAIN drawioClientFiles[conn[c].srv]
                                   /\ drawioClientFiles[conn[c].srv][e]
                                        = ExpectedFile(Head(up[c]).filePath)}]_vars
  /\ [][\A e \in Conns, m \in EndpointFrames :
          (ExtMessage(e, m) /\ conn[e].ep /\ wss[conn[e].srv] /\ m.type = "result") =>
             \A k \in Conns :
               (conn[k].srv = conn[e].srv /\ conn[k].cli # NoProc /\ conn[k].sst = "open")
                 => down'[k] = Append(down[k], m)]_vars
  /\ [][\A k \in Conns :
          (RelayRecv(k) /\ Head(down[k]).requestId \in pendingRequests[conn[k].cli]) =>
             /\ reqs'[Head(down[k]).requestId].state = "resolved"
             /\ reqs'[Head(down[k]).requestId].value = Head(down[k])
             /\ ~reqs'[Head(down[k]).requestId].timer
             /\ Head(down[k]).requestId \notin pendingRequests'[conn[k].cli]]_vars

\* C6 witness: a Relay's promise has just been resolved with the answer the
\* server forwarded, while the server itself never had that request pending.
C6_RelayResolved ==
  /\ last.op = "relayResolve"
  /\ reqs[last.msg.requestId].state = "resolved"
  /\ reqs[last.msg.requestId].by = last.p
  /\ reqs[last.msg.requestId].value.success
  /\ isRelayMode[last.p] /\ ~wss[last.p]
  /\ wss[conn[last.c].srv] /\ conn[last.c].srv # last.p

\* the server has died, the port is free, and every surviving process had
\* started: each is a Relay whose upstream is gone or a process waiting to retry
LeaderLost ==
  /\ portOwner = NoProc
  /\ \E p \in Procs : ~alive[p]
  /\ \E q \in Procs : alive[q]
  /\ \A q \in Procs : alive[q] => startResult[q] = "resolved"

\* C8: after the server dies with Relays attached, the first retry tick of a
\* surviving Relay binds the free port and that process becomes the server;
\* eventually exactly one survivor is the server, and never two at once.
C8_Failover ==
  /\ [](Cardinality(Leaders) <= 1)
  /\ [][\A p \in Procs : (TimerFire(p) /\ portOwner = NoProc) =>
                            (portOwner' = p /\ listening'[p] = "tick")]_vars
  /\ [][\A p \in Procs : (BecomeServer(p) /\ listening[p] = "tick") =>
                            (wss'[p] /\ ~isRelayMode'[p] /\ relayReconnectTimer'[p] = 0)]_vars
  /\ LeaderLost ~> (Cardinality(Leaders) = 1)

\* C8 witness: the first server is dead and a process that was a Relay is the
\* server now, another survivor being attached to it.
C8_NewLeader ==
  \E p, q, d \in Procs :
    /\ ~alive[d] /\ IsLeader(p) /\ startResult[p] = "resolved" /\ p # q
    /\ IsRelay(q) /\ conn[relayWs[q]].srv = p /\ conn[relayWs[q]].origin = "tick"

\* one server, and every other process a Relay with an open upstream to it
OneLeaderRestRelays ==
  \E p \in Procs :
    /\ Leaders = {p}
    /\ \A q \in Procs \ {p} :
         /\ IsRelay(q) /\ ~wss[q]
         /\ conn[relayWs[q]].srv = p /\ conn[relayWs[q]].sst = "open"

\* every start has returned, no retry is scheduled and no connection attempt is
\* in flight
StartsSettled ==
  /\ \A p \in Procs : startResult[p] = "resolved" /\ relayReconnectTimer[p] = 0
  /\ \A c \in Conns : conn[c].cst \notin {"connecting", "accepted", "failed"}

\* C9: N processes started one after another on a free port end as one server
\* and N-1 Relays with an open upstream connection to it.
C9_SequentialStarts ==
  /\ [](StartsSettled => OneLeaderRestRelays)
  /\ <>[]OneLeaderRestRelays

\* C9 witness: all N processes have started; the first is the server and each
\* of the others is attached by the connection its start made.
C9_AllStarted ==
  /\ StartsSettled /\ OneLeaderRestRelays
  /\ Cardinality({q \in Procs : IsRelay(q) /\ conn[relayWs[q]].origin = "start"}) = NumProcs - 1

\* a bind or a connection attempt of p is in flight (the spec's AcquiringLeader
\* and RelayConnecting)
Acquiring(p) ==
  \/ Busy(p)
  \/ \E c \in Conns : conn[c].cli = p /\ conn[c].cst \in {"connecting", "accepted", "failed"}

\* the process holds nothing: no server, no port, no upstream socket, no timer,
\* no relay flag, empty registry
HoldsNothing(p) ==
  /\ ~wss[p] /\ portOwner # p /\ ~isRelayMode[p]
  /\ relayWs[p] = NoConn /\ relayReconnectTimer[p] = 0
  /\ clients[p] = {} /\ drawioClients[p] = {} /\ drawioClientFiles[p] = EmptyMap

\* C11 (as claimed): when stopSidecar returns, called in Leader, Relay or
\* RetryPending state (no bind or connect in flight), the process holds no
\* listening socket, no upstream socket and no retry timer, every socket it
\* had open is closed or closing, and the editor set, the bridge set and the
\* file map are empty.
C11_StopResets ==
  [][\A p \in Procs :
       (Stop(p) /\ ~Acquiring(p) /\ (IsLeader(p) \/ IsRelay(p) \/ IsRetryPending(p))) =>
          /\ HoldsNothing(p)'
          /\ \A c \in Conns :
               /\ (conn[c].srv = p /\ conn[c].sst = "open")
                    => (conn'[c].sst # "open" /\ conn'[c].cst # "open")
               /\ (conn[c].cli = p /\ conn[c].cst = "open") => conn'[c].cst # "open"]_vars

\* C11, the module variables and the served sockets alone: they are reset and
\* closed by every stopSidecar.
C11_StopResetsTracked ==
  [][\A p \in Procs : Stop(p) =>
          /\ ~wss'[p] /\ ~isRelayMode'[p] /\ relayWs'[p] = NoConn /\ relayReconnectTimer'[p] = 0
          /\ clients'[p] = {} /\ drawioClients'[p] = {} /\ drawioClientFiles'[p] = EmptyMap
          /\ \A c \in Conns :
               (wss[p] /\ conn[c].srv = p /\ conn[c].sst = "open") => conn'[c].sst # "open"]_vars

\* C11 divergence: a process has stopped and holds nothing in its variables,
\* yet an upstream socket it opened is still open: two overlapping starts
\* opened two sockets and stopSidecar closed only the one relayWs referred to.
C11_UpstreamOpenAfterStop ==
  \E p \in Procs : \E c \in Conns :
    /\ nStops > 0 /\ alive[p] /\ HoldsNothing(p) /\ ~Acquiring(p)
    /\ conn[c].cli = p /\ conn[c].cst = "open" /\ conn[c].sst = "open"
    /\ conn[c].srv # p

\* the spec's Unstarted: nothing held and nothing in flight
Unstarted(p) == alive[p] /\ HoldsNothing(p) /\ ~Acquiring(p)

\* C12 (as claimed): only startSidecar takes a process out of Unstarted; after
\* stopSidecar, no close event of a socket the stop closed and no attempt that
\* was in flight arms a timer, binds the port or opens an upstream socket.
C12_OnlyStartLeavesUnstarted ==
  [][\A p \in Procs : (Unstarted(p) /\ ~Start(p) /\ alive'[p]) => Unstarted(p)']_vars

\* C12 divergence: a relay that called stopSidecar has its retry timer armed by
\* the close event of the upstream socket the stop closed; the server it was
\* attached to is still running.
C12_StoppedRelayRetries ==
  \E p, q \in Procs :
    /\ nStops > 0 /\ p # q /\ IsLeader(q) /\ alive[p]
    /\ ~wss[p] /\ ~isRelayMode[p] /\ relayWs[p] = NoConn /\ ~Acquiring(p)
    /\ startResult[p] = "resolved" /\ relayReconnectTimer[p] > 0
    /\ \A c \in Conns : conn[c].cli # p

\* everything of the module state of p and of the sockets, except startResult
NoSideEffects ==
  UNCHANGED <<alive, portOwner, listening, wss, isRelayMode, relayWs, relayReconnectTimer,
              conn, up, down, clients, drawioClients, drawioClientFiles, pendingRequests,
              reqs, nSent, nStops>>

\* C13: startSidecar called by a process that is Leader or Relay returns a
\* resolved promise and changes nothing: no bind, no new socket, no timer, the
\* role, the registry and the pending map as before.
C13_StartIdempotent ==
  [][\A p \in Procs : (Start(p) /\ (IsLeader(p) \/ IsRelay(p))) =>
        (NoSideEffects /\ startResult'[p] = "resolved")]_vars

\* C13 witness: a Relay with an open upstream socket, and a Leader with a
\* tracked socket, both started.
C13_StartedTwiceCase ==
  \E p, q \in Procs :
    /\ IsLeader(p) /\ IsRelay(q) /\ p # q /\ conn[relayWs[q]].srv = p
    /\ startResult[p] = "resolved" /\ startResult[q] = "resolved"

\* C14: when the bind of startSidecar fails with an error other than
\* EADDRINUSE, the start promise rejects and nothing else changes: no relay
\* socket, no retry timer, no listening socket.
C14_FatalBindError ==
  [][\A p \in Procs : (Start(p) /\ ~AlreadyStarted(p) /\ portOwner = Denied) =>
        /\ startResult'[p] = "rejected"
        /\ NoSideEffects
        /\ \A c \in Conns : conn'[c].cli # p
        /\ ~wss'[p] /\ relayWs'[p] = NoConn /\ relayReconnectTimer'[p] = 0]_vars

\* C14 witness: a start was rejected and the process is left with nothing.
C14_StartRejected ==
  \E p \in Procs :
    /\ startResult[p] = "rejected" /\ portOwner = Denied /\ HoldsNothing(p) /\ ~Acquiring(p)

\* C15: a start whose bind failed with EADDRINUSE never rejects: its promise
\* resolves when the relay socket opens (the process is then a Relay) or when
\* the attempt fails or times out (the process then has exactly one retry
\* timer pending and no upstream socket).
C15_InUseFallsBack ==
  /\ [][\A p \in Procs : (Start(p) /\ ~AlreadyStarted(p) /\ portOwner \in Procs) =>
          /\ startResult'[p] = "pending"
          /\ \E c \in Conns : conn[c].cst = "free" /\ conn'[c] = NewRelayConn(p, "start")]_vars
  /\ [][\A c \in Conns : (RelayOpen(c) /\ conn[c].origin = "start") =>
          /\ startResult'[conn[c].cli] = "resolved"
          /\ IsRelay(conn[c].cli)' /\ relayWs'[conn[c].cli] = c]_vars
  /\ [][\A c \in Conns : ((ConnectFail(c) \/ ConnectTimeout(c)) /\ conn[c].origin = "start") =>
          /\ startResult'[conn[c].cli] = "resolved"
          /\ relayReconnectTimer'[conn[c].cli] = 1
          /\ relayWs'[conn[c].cli] = NoConn]_vars
  /\ [][\A p \in Procs : (startResult[p] = "pending" /\ alive'[p])
                            => startResult'[p] \in {"pending", "resolved"}]_vars

\* C15 witness: one process became a Relay by its start, another is waiting to
\* retry after its start's connection attempt failed; both starts resolved.
C15_BothFallbacks ==
  \E p, q \in Procs :
    /\ p # q /\ startResult[p] = "resolved" /\ startResult[q] = "resolved"
    /\ IsRelay(p) /\ conn[relayWs[p]].origin = "start"
    /\ IsRetryPending(q) /\ ~isRelayMode[q] /\ relayWs[q] = NoConn /\ relayReconnectTimer[q] = 1

\* the open sockets of server p: bridge sockets (Controllers) and editors
OpenBridges(p) == {c \in Conns : conn[c].srv = p /\ ~conn[c].ep /\ conn[c].sst = "open"}
OpenEditors(p) == {c \in Conns : conn[c].srv = p /\ conn[c].ep /\ conn[c].sst = "open"}
\* the open editors of p registered for the file the raw path fp names
EditorsOf(p, fp) ==
  {c \in OpenEditors(p) : /\ c \in DOMAIN drawioClientFiles[p]
                          /\ drawioClientFiles[p][c] = ExpectedFile(fp)}

\* C16: a server-mode send reaches every open bridge socket whatever its
\* filePath; with a filePath it reaches, besides them, exactly the open
\* editors registered for that file, without it every open editor.
C16_ControllersAlways ==
  (last.op = "send" /\ wss[last.p]) =>
     /\ OpenBridges(last.p) \subseteq last.to
     /\ last.to = OpenBridges(last.p) \cup
                    (IF last.msg.filePath.present
                     THEN EditorsOf(last.p, last.msg.filePath) ELSE OpenEditors(last.p))

\* C16 witness: a scoped send reached a bridge socket while an open editor
\* registered for another file was left out.
C16_ScopedReachesBridge ==
  /\ last.op = "send" /\ wss[last.p] /\ last.msg.filePath.present
  /\ \E c \in last.to : ~conn[c].ep
  /\ \E c \in OpenEditors(last.p) : c \in DOMAIN drawioClientFiles[last.p] /\ c \notin last.to

\* C17 (as claimed): a Relay's send delivers nothing locally and appends the
\* message once to its upstream socket; the server, receiving it, delivers it
\* to the same sockets its own sendToDrawio would for that message.
C17_RelayedFanOutSame ==
  /\ [][\A p \in Procs, fp \in FilePaths :
          (Send(p, fp) /\ IsRelay(p)) =>
             /\ down' = down
             /\ up' = [up EXCEPT ![relayWs[p]] = Append(@, Msg("status", fp, p, NoReq, FALSE))]]_vars
  /\ [][\A c \in Conns :
          (ServerRecv(c) /\ wss[conn[c].srv] /\ conn[c].cli # NoProc) =>
             last'.to = LocalTargets(conn[c].srv, Head(up[c]))]_vars

\* C17, what the code does: the relayed message goes upstream once and the
\* server delivers it to the editors its own send would target, and to no
\* bridge socket.
C17_RelayedToEditorsOnly ==
  /\ [][\A p \in Procs, fp \in FilePaths :
          (Send(p, fp) /\ IsRelay(p)) =>
             /\ down' = down
             /\ up' = [up EXCEPT ![relayWs[p]] = Append(@, Msg("status", fp, p, NoReq, FALSE))]]_vars
  /\ [][\A c \in Conns :
          (ServerRecv(c) /\ wss[conn[c].srv] /\ conn[c].cli # NoProc) =>
             last'.to = {e \in LocalTargets(conn[c].srv, Head(up[c])) : conn[e].ep}]_vars

\* C17 divergence: the server has routed a Relay's message and the sockets
\* that got it are not those its own send would have reached: the bridge
\* sockets, the Relay's among them, are missing.
C17_BridgesLeftOut ==
  /\ last.op = "route" /\ wss[last.p] /\ conn[last.c].cli # NoProc
  /\ last.msg.type = "status"
  /\ last.to # LocalTargets(last.p, last.msg)
  /\ last.to = {e \in LocalTargets(last.p, last.msg) : conn[e].ep}
  /\ \E e \in last.to : conn[e].ep

\* a Relay whose upstream socket is gone or no longer open
InGap(p) ==
  /\ alive[p] /\ isRelayMode[p] /\ ~wss[p]
  /\ relayWs[p] = NoConn \/ conn[relayWs[p]].cst # "open"

\* C18: the close event of a Relay's upstream socket clears relayWs and leaves
\* one retry timer pending; a send in the gap reaches no socket and is put in
\* no queue.
C18_GapSendsLost ==
  /\ [][\A c \in Conns :
          (RelayClose(c) /\ relayWs[conn[c].cli] = c /\ isRelayMode[conn[c].cli]) =>
             /\ relayWs'[conn[c].cli] = NoConn
             /\ relayReconnectTimer'[conn[c].cli] = 1]_vars
  /\ [][\A p \in Procs, fp \in FilePaths :
          ((Send(p, fp) \/ SendAndWait(p, fp)) /\ InGap(p)) =>
             /\ up' = up /\ down' = down
             /\ last'.op = "send" /\ last'.to = {}]_vars

\* C18 witness: a process whose upstream has closed sent a message while its
\* retry timer was pending, and nobody received it.
C18_SentInGap ==
  /\ last.op = "send" /\ last.to = {} /\ last.msg.type = "status"
  /\ InGap(last.p) /\ relayWs[last.p] = NoConn /\ relayReconnectTimer[last.p] = 1

\* C19: after a register frame for path F the socket's registration is the
\* file F names, whatever it was before, and the socket is a target of
\* exactly the scoped sends for that file; registering what is registered
\* already changes nothing; a register changes no other socket's entry.
C19_RegisterLastWriteWins ==
  /\ [](last.op = "register" =>
          /\ last.c \in DOMAIN drawioClientFiles[last.p]
          /\ drawioClientFiles[last.p][last.c] = ExpectedFile(last.msg.filePath)
          /\ \A fp \in RawPaths :
               (last.c \in getTargetDrawioClients(last.p, fp))
                 <=> (ExpectedFile(fp) = ExpectedFile(last.msg.filePath)))
  /\ [][\A c \in Conns, fp \in RawPaths :
          (ExtMessage(c, Msg("register", fp, NoProc, NoReq, FALSE)) /\ conn[c].ep) =>
             /\ (c \in DOMAIN drawioClientFiles[conn[c].srv]
                   /\ drawioClientFiles[conn[c].srv][c] = ExpectedFile(fp))
                  => drawioClientFiles' = drawioClientFiles
             /\ \A k \in DOMAIN drawioClientFiles[conn[c].srv] \ {c} :
                  /\ k \in DOMAIN drawioClientFiles'[conn[c].srv]
                  /\ drawioClientFiles'[conn[c].srv][k] = drawioClientFiles[conn[c].srv][k]
             /\ DOMAIN drawioClientFiles'[conn[c].srv]
                  = DOMAIN drawioClientFiles[conn[c].srv] \cup {c}]_vars

\* C19 witness: a register frame with a path written differently from the
\* registered form has set the socket's file while another editor keeps a
\* different one.
C19_Reregistered ==
  /\ last.op = "register" /\ last.msg.filePath = FP(FALSE, <<"..", "TMP", "A">>)
  /\ drawioClientFiles[last.p][last.c] = <<"tmp", "a">>
  /\ \E k \in DOMAIN drawioClientFiles[last.p] :
       k # last.c /\ drawioClientFiles[last.p][k] = <<"tmp", "b">>

\* the sockets a server tracks
Tracked(p) == clients[p] \cup drawioClients[p] \cup DOMAIN drawioClientFiles[p]

\* C20: the close handler removes the socket from the editor set, the bridge
\* set and the file map at once; the counts and the registered files are those
\* of the remaining sockets; no tracked socket is a closed one and only open
\* sockets are delivery targets.
C20_DisconnectRemoves ==
  /\ [][\A c \in Conns, p \in Procs : (ServerClose(c) /\ conn[c].srv = p) =>
          /\ c \notin Tracked(p)'
          /\ clients'[p] = clients[p] \ {c}
          /\ drawioClients'[p] = drawioClients[p] \ {c}
          /\ getClientCount(p)'.registeredFiles =
               {drawioClientFiles[p][k] : k \in DOMAIN drawioClientFiles[p] \ {c}}
          /\ getClientCount(p)'.extensions + getClientCount(p)'.drawioPlugins
               = Cardinality((clients[p] \cup drawioClients[p]) \ {c})]_vars
  /\ [](\A p \in Procs : \A c \in Tracked(p) :
          conn[c].srv = p /\ conn[c].sst \in {"open", "closing"})
  /\ [](\A c \in last.to : conn[c].sst = "open")

\* C20 witness: the first socket has disconnected and is forgotten; the second,
\* an editor with a file, is still tracked and its file still listed.
C20_OneLeftRegistered ==
  \E p \in Procs :
    /\ wss[p] /\ conn[1].cst = "free" /\ 1 \notin Tracked(p)
    /\ 2 \in drawioClients[p] /\ 2 \in DOMAIN drawioClientFiles[p] /\ conn[2].sst = "open"
    /\ getClientCount(p) = [extensions |-> 0, drawioPlugins |-> 1,
                            registeredFiles |-> {drawioClientFiles[p][2]}]

C22_InboundRoutedAsOutbound ==
  [][\A c \in Conns, m \in ControllerFrames, p \in Procs :
       (conn[c].srv = p /\ ~conn[c].ep /\ wss[p] /\ m.type = "status" /\ ExtMessage(c, m)) =>
         /\ last'.to = {e \in LocalTargets(p, m) : conn[e].ep}
         /\ last'.to = IF m.filePath.present THEN EditorsOf(p, m.filePath)
                       ELSE OpenEditors(p)]_vars

\* C22 witness: a scoped frame from a bridge socket was forwarded to an editor.
C22_BridgeFrameRouted ==
  /\ last.op = "route" /\ ~conn[last.c].ep /\ conn[last.c].cli = NoProc
  /\ last.msg.filePath.present
  /\ \E e \in last.to : conn[e].ep

\* C23: a response whose requestId is not in the pending map of the process
\* that receives it (as server from an editor socket, or as relay from its
\* upstream socket) changes neither the map nor any promise nor any timer.
C23_UnknownResponseNoOp ==
  /\ [][\A c \in Conns, r \in ReqIds, p \in Procs :
          (conn[c].srv = p /\ r \notin pendingRequests[p]
             /\ ExtMessage(c, Msg("result", NoFile, NoProc, r, TRUE)))
          => UNCHANGED <<pendingRequests, reqs>>]_vars
  /\ [][\A c \in Conns, q \in Procs :
          (RelayRecv(c) /\ conn[c].cli = q /\ Head(down[c]).requestId \notin pendingRequests[q])
          => UNCHANGED <<pendingRequests, reqs>>]_vars

\* C23 witness: a relay received the response to a request of another process,
\* which that process had already resolved (foreign), while holding a pending
\* request of its own.
C23_ForeignResponseAtRelay ==
  /\ last.op = "relayMessage" /\ last.msg.type = "result"
  /\ reqs[last.msg.requestId].by # last.p /\ reqs[last.msg.requestId].state = "resolved"
  /\ \E r \in pendingRequests[last.p] : reqs[r].state = "pending" /\ reqs[r].timer

\* C24: a payload whose handling throws, on an editor socket, a bridge or relay
\* socket of the server or the upstream socket of a relay, changes nothing: no
\* socket is sent anything, registry, pending map, promises and roles are as
\* before, so later frames are handled as if it had not arrived.
C24_MalformedDropped ==
  [][\A c \in Conns, m \in MalformedFrames :
       (ExtMessage(c, m) \/ UpstreamRaw(c, m)) =>
          /\ UNCHANGED <<procVars, conn, up, down, regVars, reqVars>>
          /\ last'.to = {}
          /\ \A p \in Procs : alive'[p] = alive[p]]_vars

\* C24 witness: a server with an open editor and a pending request has just
\* dropped a malformed payload from a bridge socket.
C24_DroppedAtServer ==
  /\ last.op = "ignored" /\ wss[last.p] /\ ~conn[last.c].ep /\ conn[last.c].srv = last.p
  /\ OpenEditors(last.p) # {}
  /\ pendingRequests[last.p] # {}

\* no editor socket of p is registered for the file the raw path fp names
NoMatch(p, fp) ==
  /\ fp.present
  /\ \A c \in DOMAIN drawioClientFiles[p] : drawioClientFiles[p][c] # ExpectedFile(fp)

\* C25 (as claimed): a send with a filePath that no editor is registered for
\* has no recipient at all.
C25_NoMatchZeroRecipients ==
  (last.op = "send" /\ NoMatch(last.p, last.msg.filePath)) => last.to = {}

\* C25 (amended): a send with a filePath that no editor is registered for
\* reaches no editor socket; its recipients are the open bridge sockets alone.
\* The call returns normally and leaves roles, registry and pending requests
\* as they were.
C25_NoMatchNoEditor ==
  /\ []((last.op = "send" /\ NoMatch(last.p, last.msg.filePath)) =>
          /\ \A c \in last.to : ~conn[c].ep
          /\ last.to = OpenBridges(last.p))
  /\ [][\A p \in Procs, fp \in RawPaths :
          (Send(p, fp) /\ NoMatch(p, fp)) =>
             /\ UNCHANGED <<procVars, conn, regVars, reqVars, up>>
             /\ last'.op = "send"]_vars

\* C25 witness: a scoped send matched no editor although an open editor is
\* registered for another file, and went to a bridge socket.
C25_MissWithBridge ==
  /\ last.op = "send" /\ NoMatch(last.p, last.msg.filePath)
  /\ \E e \in OpenEditors(last.p) : e \in DOMAIN drawioClientFiles[last.p]
  /\ \E b \in last.to : ~conn[b].ep

C28_RecordClearsRedo ==
  /\ [](hlast.op = "record" => undoneRecords = <<>>)
  /\ [][\A k \in CallIds : (hlast.op = "record" /\ Redo(k)) =>
          /\ hlast'.op = "redo" /\ ~hlast'.ok
          /\ UNCHANGED <<changeHistory, undoneRecords, fileXml, calls>>]_vars

\* C28 witness: the third change has just been recorded after the first two
\* were undone: it is the only record left and the redo stack is empty.
C28_RecordedAfterUndos ==
  /\ hlast.op = "record" /\ hlast.rec.id = 3
  /\ changeHistory = <<hlast.rec>> /\ undoneRecords = <<>>
  /\ \A k \in CallIds : calls[k] = NoCall

\* C29: a retry tick binds the port when the port is free, and then opens no
\* connection; it opens a relay connection only when the bind failed.  The
\* continuation of a tick's successful bind puts the process in server mode,
\* out of relay mode, and opens no connection either.
C29_TickBindsFirst ==
  /\ [][\A p \in Procs : (portOwner = NoProc /\ TimerFire(p)) =>
          /\ portOwner' = p /\ listening'[p] = "tick"
          /\ conn' = conn]_vars
  /\ [][\A p \in Procs : (portOwner # NoProc /\ TimerFire(p)) =>
          /\ portOwner' = portOwner /\ listening' = listening
          /\ \E c \in Conns :
                /\ conn[c].cst = "free" /\ conn'[c].cli = p /\ conn'[c].cst = "connecting"
                /\ \A d \in Conns \ {c} : conn'[d] = conn[d]]_vars
  /\ [][\A p \in Procs : (listening[p] = "tick" /\ BecomeServer(p)) =>
          /\ wss'[p] /\ ~isRelayMode'[p] /\ relayWs'[p] = NoConn /\ relayReconnectTimer'[p] = 0
          /\ \A c \in Conns : conn[c].cst = "free" => conn'[c].cst = "free"]_vars

\* C29 witness: the server is gone and the tick of a process in relay mode has
\* bound the port, with no connection attempt of that process under way.
C29_TickBound ==
  \E p \in Procs :
    /\ listening[p] = "tick" /\ portOwner = p /\ isRelayMode[p]
    /\ \A c \in Conns : conn[c].cli = p => conn[c].cst \notin {"connecting", "accepted", "open"}

\* C30: no live process is in server mode and at the same time in relay mode
\* or holding an open upstream connection.
C30_OneRoleAtATime ==
  \A p \in Procs : alive[p] =>
    ~(wss[p] /\ (isRelayMode[p] \/ \E c \in Conns : conn[c].cli = p /\ conn[c].cst = "open"))

\* C30 divergence: a process in server mode is a relay of itself: its upstream
\* connection is open and ends at its own server.
C30_LeaderAndRelayOfItself ==
  \E p \in Procs : wss[p] /\ IsRelay(p) /\ conn[relayWs[p]].srv = p /\ conn[relayWs[p]].sst = "open"

\* p has an upstream connection open (the socket, whatever relayWs refers to)
UpstreamOpen(p) == \E c \in Conns : conn[c].cli = p /\ conn[c].cst = "open"

\* C31: a process in Relay state (upstream connection open) never attempts to
\* bind the port; a bind is attempted only by startSidecar called in Unstarted
\* state and by a retry tick in RetryPending state.
C31_RelayNeverBinds ==
  /\ [][\A p \in Procs : TimerFire(p) =>
          ~IsRelay(p) /\ ~UpstreamOpen(p) /\ IsRetryPending(p)]_vars
  /\ [][\A p \in Procs : (~AlreadyStarted(p) /\ Start(p)) => Unstarted(p)]_vars

\* C31 divergence: a process in relay mode whose upstream connection is open
\* has a retry timer pending, so its tick will attempt a bind.
C31_RelayWithTimer ==
  \E p \in Procs : IsRelay(p) /\ relayReconnectTimer[p] > 0 /\ ~Busy(p)

\* C32: a frame that carries the pid of the process it arrives at over that
\* process's upstream socket is dropped: it runs no user-event callback,
\* settles no pending request and is sent to no connection.
C32_OwnMessageDropped ==
  [][\A c \in Conns :
       (/\ conn[c].cli # NoProc /\ down[c] # <<>>
        /\ Head(down[c]).pid = conn[c].cli
        /\ RelayRecv(c))
       => /\ pendingRequests' = pendingRequests /\ reqs' = reqs
          /\ ~last'.cb
          /\ up' = up
          /\ \A d \in Conns \ {c} : down'[d] = down[d]]_vars

\* C32 divergence: the process's own request, bounced back over an upstream
\* socket, has resolved the pending request it belongs to.
C32_OwnRequestResolvedIt ==
  /\ last.op = "relayResolve" /\ last.msg.pid = last.p
  /\ last.msg.type = "graph-edit"
  /\ reqs[last.msg.requestId].state = "resolved"
  /\ reqs[last.msg.requestId].value = last.msg

\* m1 and m2 are requests of one process, and m1 was sent first (generateId
\* hands out the ids in increasing order)
SentBefore(m1, m2) ==
  /\ m1.type = "graph-edit" /\ m2.type = "graph-edit"
  /\ m1.pid = m2.pid /\ m1.requestId < m2.requestId

\* C33: the frames a connection has been sent are in the order their sender
\* sent them: of two requests of one process that reached the same editor,
\* bridge or relay socket, the one sent first arrived first, whether the sender
\* sent them itself in server mode or relayed them through the server.
C33_FifoPerConnection ==
  \A c \in Conns : \A i, j \in DOMAIN down[c] :
    i < j => ~SentBefore(down[c][j], down[c][i])

\* C33 divergence: an editor has received the second request of a process
\* before the first one.
C33_EditorGotSecondFirst ==
  \E c \in Conns :
    /\ conn[c].cli = NoProc /\ conn[c].ep /\ conn[c].cst = "open" /\ Len(down[c]) = 2
    /\ SentBefore(down[c][2], down[c][1])

\* C34, the parts that hold: no socket is in both Sets, clients and
\* drawioClients, and a register frame from a bridge socket sets no file, also
\* when it arrives while stopSidecar is closing the socket.
C34_DisjointAndBridgeRegisterIgnored ==
  /\ [](\A p \in Procs : clients[p] \cap drawioClients[p] = {})
  /\ [][\A c \in Conns : \A m \in ControllerRegisterFrames :
         (conn[c].cli = NoProc /\ ~conn[c].ep /\ ExtMessageClosing(c, m))
            => drawioClientFiles' = drawioClientFiles]_vars

\* C34 (as claimed): in every reachable state the two Sets are disjoint and
\* every socket with a registered file is in the Set of editors, also while
\* stopSidecar is closing the sockets.
C34_RegistryConsistent ==
  \A p \in Procs :
    /\ clients[p] \cap drawioClients[p] = {}
    /\ DOMAIN drawioClientFiles[p] \subseteq drawioClients[p]

\* C34 divergence: the process has stopped, its Sets are empty, and a socket
\* the stop is closing has a registered file.
C34_RegisteredAfterStop ==
  \E p \in Procs : \E c \in DOMAIN drawioClientFiles[p] :
    /\ ~wss[p] /\ nStops > 0 /\ drawioClients[p] = {} /\ clients[p] = {}
    /\ conn[c].sst = "closing" /\ last.op = "register" /\ last.c = c

\* a survivor of the server's death that has been a Relay: isRelayMode is set
\* by the 'open' event of an upstream socket and cleared only by becomeServer
\* and stopSidecar
WasRelay(q) == alive[q] /\ isRelayMode[q] /\ \E d \in Procs : ~alive[d]

\* q is the server, or a Relay whose open upstream connection ends at the server
SettledRole(q) ==
  \/ IsLeader(q)
  \/ /\ IsRelay(q) /\ relayReconnectTimer[q] = 0
     /\ conn[relayWs[q]].srv \in Leaders /\ conn[relayWs[q]].sst = "open"

\* C35: after the server has died, every process that was a Relay and stays
\* alive ends, and stays, either the server or a Relay with an open upstream
\* connection to the server that stays alive; none waits for a retry for ever
\* and none is left with neither role. A process that dies itself is no
\* survivor and is bound to nothing.
C35_SurvivorsSettle ==
  \A q \in Procs : [](WasRelay(q) => <>[](alive[q] => SettledRole(q)))

\* C35 witness: the first server is dead, one survivor is the server and the
\* other, a Relay before, is attached to it by a connection a retry tick made;
\* no timer is pending and no attempt is in flight.
C35_SurvivorsSettled ==
  \E d, p, q \in Procs :
    /\ ~alive[d] /\ p # q /\ IsLeader(p) /\ listening[p] = "none"
    /\ WasRelay(q) /\ SettledRole(q) /\ conn[relayWs[q]].origin = "tick"
    /\ \A r \in Procs : relayReconnectTimer[r] = 0
    /\ \A c \in Conns : conn[c].cst \in {"free", "open"}

\* the upstream sockets of p that are open
OpenUpstreams(p) == {c \in Conns : conn[c].cli = p /\ conn[c].cst = "open"}

\* a step creates an upstream socket of p (new WebSocket(url) in connectRelay)
OpensUpstream(p) ==
  \E c \in Conns : conn[c].cli # p /\ conn'[c].cli = p /\ conn'[c].cst \in {"connecting", "failed"}

\* C36: a process has at most one retry timer pending and at most one open
\* upstream connection; startSidecar and a retry tick open no upstream socket
\* while one is open; and the close or failure event of one upstream socket
\* does not clear relayWs when it refers to another socket that is open.
C36_OneTimerOneUpstream ==
  /\ [](\A p \in Procs : relayReconnectTimer[p] <= 1 /\ Cardinality(OpenUpstreams(p)) <= 1)
  /\ [][\A p \in Procs :
         (UpstreamOpen(p) /\ (Start(p) \/ TimerFire(p))) => ~OpensUpstream(p)]_vars
  /\ [][\A c \in Conns : \A p \in Procs :
         (/\ conn[c].cli = p /\ relayWs[p] # NoConn /\ relayWs[p] # c
          /\ conn[relayWs[p]].cst = "open"
          /\ (RelayClose(c) \/ ConnectFail(c) \/ ConnectTimeout(c)))
         => relayWs'[p] = relayWs[p]]_vars

\* C36 divergence: a process that is not a server has two upstream sockets
\* open at once, to the same server.
C36_TwoUpstreamsOpen ==
  \E p \in Procs : \E c, d \in OpenUpstreams(p) :
    /\ c # d /\ ~wss[p] /\ conn[c].srv = conn[d].srv /\ conn[c].sst = "open" /\ conn[d].sst = "open"
    /\ relayWs[p] \in {c, d}

\* C37: the promise of a pending request r is resolved only with a result
\* frame that carries requestId r (result frames are sent by editors only);
\* never with a request frame, such as the copy of a request the server sends
\* to its bridge and relay sockets.
C37_ResolvedOnlyByResult ==
  [][\A r \in ReqIds :
       (reqs[r].state = "pending" /\ reqs'[r].state = "resolved") =>
          /\ reqs'[r].value.type = "result"
          /\ reqs'[r].value.requestId = r]_vars

\* C37 divergence: a promise was resolved with a request frame, the request
\* itself.
C37_ResolvedByRequest ==
  \E r \in ReqIds :
    /\ reqs[r].state = "resolved" /\ reqs[r].value.type = "graph-edit"
    /\ reqs[r].value.requestId = r /\ reqs[r].value.pid = reqs[r].by

\* C38: a frame a Relay forwarded is sent by the server once to each open
\* editor it matches (all of them without a filePath, else those registered
\* for the file) and to no other socket: not to the Relay it came from, not to
\* another relay or bridge socket.
C38_RelayedOnceToEditorsOnly ==
  [][\A c \in Conns :
       (conn[c].cli # NoProc /\ up[c] # <<>> /\ ServerRecv(c)) =>
          LET p == conn[c].srv
              m == Head(up[c])
              E == IF m.filePath.present THEN EditorsOf(p, m.filePath) ELSE OpenEditors(p)
          IN /\ last'.to = E
             /\ \A d \in Conns :
                  down'[d] = IF d \in E /\ Receives(d) THEN Append(down[d], m) ELSE down[d]]_vars

\* C38 witness: the server has routed a Relay's scoped request; the editor
\* registered for the file holds one copy and the Relay's socket none.
C38_RoutedOnce ==
  \E e \in Conns :
    /\ last.op = "route" /\ conn[last.c].cli # NoProc /\ conn[last.c].cli # last.p
    /\ last.msg.filePath.present /\ last.to = {e}
    /\ conn[e].ep /\ down[e] = <<last.msg>> /\ down[last.c] = <<>>

\* C39: after disconnect(), until connect() is called again, no reconnect
\* timer is pending, none gets scheduled (not by the 'close' event of the
\* socket disconnect() closed either) and no socket is created.
C39_StaysDisconnected ==
  /\ [](userDisconnected => ~reconnectTimer)
  /\ [][(userDisconnected /\ userDisconnected') =>
          /\ ~reconnectTimer'
          /\ \A s \in BridgeSocks : bsock'[s].st = "connecting" => bsock[s].st = "connecting"]_vars

\* C39 divergence: the client was disconnected by disconnect() and not
\* connected again by the extension, and it has a socket open.
C39_ReconnectedAfterDisconnect ==
  \E s \in BridgeSocks :
    /\ userDisconnected /\ bridgeWs = s /\ bsock[s].st = "open" /\ isConnected
    /\ \A t \in BridgeSocks \ {s} : bsock[t].st = "none"

====
